---- MODULE Spec2Model ----
(***************************************************************************)
(* A model of SemanticPipe (src/semanticpipe.py): the validate-remediate-   *)
(* gate pipeline, its thread pool runner and its audit log.                *)
(*                                                                         *)
(* Text is modelled as sequences of weighted tokens.  A body token is a    *)
(* record [k, v, n]: k is the kind of the token, v its text (or the target *)
(* of a link) and n the number of whitespace-separated words it gives to   *)
(* strip_html(..).split().  A token of kind "txt" with n = 998 stands for  *)
(* 998 words of plain prose.  A title or excerpt token is a record         *)
(* [v, c, d]: a word v of c characters, d telling whether it ends with a   *)
(* full stop; separators of a title (": ", " - ", ...) are tokens too.     *)
(***************************************************************************)
EXTENDS Integers, Sequences, FiniteSets, TLC

\* ------------------------------------------------------------------------
\* Bounds of the model
\* ------------------------------------------------------------------------
MaxList == 2
MaxThreads == 2
\* The most paragraphs of a content given to the text functions
MaxBlocks == 3
\* The most calls of a text function on one content
MaxCalls == 2

\* ------------------------------------------------------------------------
\* Program constants
\* ------------------------------------------------------------------------
TitleMax == 60
ExcerptMax == 155
MinWords == 1000
MinBodyLinks == 3
PillarWords == 2000
WordsPerMinute == 275
MinLinkableWords == 40
MinFallbackWords == 15
MinFallback2Words == 50
MaxAnchorWords == 6
MinMainTitle == 25
MinSubRoom == 10
MinCutPos == 80
MaxBareNumbers == 20

BANNED_PHRASES ==
  << "journey", "unlock", "game-changer", "dive in", "explore the depths",
     "delve", "realm", "furthermore", "in conclusion", "nestled",
     "it's important to note", "in today's world", "it should be noted",
     "needless to say", "as we all know", "without further ado",
     "spine-tingling", "bone-chilling", "hair-raising", "reportedly haunted" >>

BANNED_REPLACEMENTS(phrase) ==
  CASE phrase = "journey" -> "path"
    [] phrase = "unlock" -> "reveal"
    [] phrase = "game-changer" -> "turning point"
    [] phrase = "dive in" -> "begin"
    [] phrase = "explore the depths" -> "examine the details"
    [] phrase = "delve" -> "examine"
    [] phrase = "realm" -> "domain"
    [] phrase = "furthermore" -> "additionally"
    [] phrase = "in conclusion" -> "ultimately"
    [] phrase = "nestled" -> "situated"
    [] phrase = "it's important to note" -> "notably"
    [] phrase = "in today's world" -> "today"
    [] phrase = "it should be noted" -> "notably"
    [] phrase = "needless to say" -> "clearly"
    [] phrase = "as we all know" -> "as documented"
    [] phrase = "without further ado" -> ""
    [] phrase = "spine-tingling" -> "unsettling"
    [] phrase = "bone-chilling" -> "disturbing"
    [] phrase = "hair-raising" -> "unsettling"
    [] phrase = "reportedly haunted" -> "said to be haunted"
    [] OTHER -> ""

\* Categories with a hub page and with a ghost-tour page (two of the table).
HUB_MAP == { "salem-witch-trials", "boston-haunted-history" }
TOUR_MAP == { "boston-haunted-history" }

\* ------------------------------------------------------------------------
\* Generic helpers
\* ------------------------------------------------------------------------
Max(a, b) == IF a >= b THEN a ELSE b
Min(a, b) == IF a <= b THEN a ELSE b

Range(s) == { s[i] : i \in 1..Len(s) }

RECURSIVE SumWords(_)
SumWords(s) == IF s = <<>> THEN 0 ELSE Head(s).n + SumWords(Tail(s))

\* Index of the first element of s that satisfies Test, or 0.
FirstIdx(s, Test(_)) ==
  LET I == { i \in 1..Len(s) : Test(s[i]) }
  IN IF I = {} THEN 0 ELSE CHOOSE i \in I : \A j \in I : i <= j

Count(s, Test(_)) == Cardinality({ i \in 1..Len(s) : Test(s[i]) })

\* ------------------------------------------------------------------------
\* Tokens
\* ------------------------------------------------------------------------
Txt(v, n) == [k |-> "txt", v |-> v, n |-> n]
Tag(v) == [k |-> "tag", v |-> v, n |-> 0]
ArtLink(slug, n) == [k |-> "art", v |-> slug, n |-> n]
HubLink(cat, n) == [k |-> "hub", v |-> cat, n |-> n]
TourLink(cat, n) == [k |-> "tour", v |-> cat, n |-> n]
Word(v, c) == [v |-> v, c |-> c, d |-> FALSE]
Sentence(v, c) == [v |-> v, c |-> c, d |-> TRUE]

IsTag(t, v) == t.k = "tag" /\ t.v = v
IsLink(t) == t.k \in {"art", "hub", "tour", "ext"}

\* Lower-case form of the words the model writes with a capital.
Lower(v) ==
  CASE v = "Journey" -> "journey"
    [] v = "Delve" -> "delve"
    [] v = "Without further ado" -> "without further ado"
    [] v = "Salem" -> "salem"
    [] v = "Gallows" -> "gallows"
    [] v = "Judges" -> "judges"
    [] v = "Court" -> "court"
    [] v = "Hill" -> "hill"
    [] v = "Haunted" -> "haunted"
    [] v = "Path" -> "path"
    [] v = "Examine" -> "examine"
    [] OTHER -> v

Capitalize(v) ==
  CASE v = "path" -> "Path"
    [] v = "reveal" -> "Reveal"
    [] v = "turning point" -> "Turning point"
    [] v = "begin" -> "Begin"
    [] v = "examine the details" -> "Examine the details"
    [] v = "examine" -> "Examine"
    [] v = "domain" -> "Domain"
    [] v = "additionally" -> "Additionally"
    [] v = "ultimately" -> "Ultimately"
    [] v = "situated" -> "Situated"
    [] v = "notably" -> "Notably"
    [] v = "today" -> "Today"
    [] v = "clearly" -> "Clearly"
    [] v = "as documented" -> "As documented"
    [] v = "unsettling" -> "Unsettling"
    [] v = "disturbing" -> "Disturbing"
    [] v = "said to be haunted" -> "Said to be haunted"
    [] OTHER -> v

\* Number of words of a replacement text.
WordsOf(v) ==
  CASE v = "" -> 0
    [] v \in {"turning point", "as documented"} -> 2
    [] v = "examine the details" -> 3
    [] v = "said to be haunted" -> 4
    [] OTHER -> 1

\* ------------------------------------------------------------------------
\* HTML utilities
\* ------------------------------------------------------------------------
\* The text nodes of a token: a tag has none, a link gives its anchor text.
TextOf(t) ==
  IF t.k = "tag" THEN <<>>
  ELSE IF IsLink(t) THEN << Txt("", t.n) >>
  ELSE << t >>

RECURSIVE strip_html(_)
strip_html(html) ==
  IF html = <<>> THEN <<>>
  ELSE TextOf(Head(html)) \o strip_html(Tail(html))

count_words(html) == SumWords(strip_html(html))

\* content.split('<hr')[0]: the tokens before the first thematic break.
HrIndex(content) == FirstIdx(content, LAMBDA t : IsTag(t, "<hr>"))

BodyBeforeHr(content) ==
  IF HrIndex(content) = 0 THEN content
  ELSE SubSeq(content, 1, HrIndex(content) - 1)

FooterDropped(content) == <<>>

FooterFromHr(content) ==
  IF HrIndex(content) = 0 THEN <<>>
  ELSE SubSeq(content, HrIndex(content), Len(content))

\* A change description of the ChangeLog: c is its kind, s and n its arguments.
Change(c, s, n) == [c |-> c, s |-> s, n |-> n]

\* ------------------------------------------------------------------------
\* Title and excerpt trimmers
\* ------------------------------------------------------------------------
\* The separators trim_title looks for, in its order; c counts their spaces.
Colon == [v |-> ": ", c |-> 2, d |-> FALSE]
EmDash == [v |-> " em ", c |-> 3, d |-> FALSE]
Hyphen == [v |-> " - ", c |-> 3, d |-> FALSE]
Pipe == [v |-> " | ", c |-> 3, d |-> FALSE]
TitleSeps == << Colon, EmDash, Hyphen, Pipe >>
IsSep(w) == w.v \in { ": ", " em ", " - ", " | " }

RECURSIVE SumChars(_)
SumChars(s) == IF s = <<>> THEN 0 ELSE Head(s).c + SumChars(Tail(s))

\* len(text): the characters of the words, one space between two words that
\* no separator stands between, and no trailing space of a last separator.
TextLen(s) ==
  IF s = <<>> THEN 0
  ELSE SumChars(s)
       + Cardinality({ i \in 1..(Len(s) - 1) : ~IsSep(s[i]) /\ ~IsSep(s[i + 1]) })
       - (IF IsSep(s[Len(s)]) THEN 1 ELSE 0)

\* len(text.split()): a colon belongs to the word before it.
SplitLen(s) == Count(s, LAMBDA w : w.v # ": ")

\* The longest prefix of sub whose words fit after main and sep.
RECURSIVE Shortened(_, _, _)
Shortened(head, sub, n) ==
  IF n >= Len(sub) THEN n
  ELSE IF TextLen(head \o SubSeq(sub, 1, n + 1)) <= TitleMax
       THEN Shortened(head, sub, n + 1)
       ELSE n

\* Strategy 2 of trim_title: drop words from the end.
RECURSIVE PopWords(_)
PopWords(words) ==
  IF TextLen(words) > TitleMax /\ SplitLen(words) > 3
  THEN PopWords(SubSeq(words, 1, Len(words) - 1))
  ELSE words

\* Strategy 1 of trim_title, from the i-th separator on.
RECURSIVE TrimAtSep(_, _)
TrimAtSep(title, i) ==
  IF i > Len(TitleSeps) THEN PopWords(title)
  ELSE LET at == FirstIdx(title, LAMBDA w : w = TitleSeps[i])
           main == SubSeq(title, 1, at - 1)
           sub == SubSeq(title, at + 1, Len(title))
           available == TitleMax - TextLen(main) - TitleSeps[i].c
           kept == Shortened(main \o << TitleSeps[i] >>, sub, 0)
       IN IF at = 0 THEN TrimAtSep(title, i + 1)
          ELSE IF TextLen(main) <= TitleMax /\ TextLen(main) >= MinMainTitle
               THEN main
          ELSE IF available > MinSubRoom
               THEN IF kept > 0
                    THEN main \o << TitleSeps[i] >> \o SubSeq(sub, 1, kept)
                    ELSE main
          ELSE TrimAtSep(title, i + 1)

trim_title(title) ==
  IF TextLen(title) <= TitleMax THEN title ELSE TrimAtSep(title, 1)

\* The number of characters up to the end of the i-th word of the excerpt.
EndOf(excerpt, i) == TextLen(SubSeq(excerpt, 1, i))

trim_excerpt(excerpt) ==
  IF TextLen(excerpt) <= ExcerptMax THEN excerpt
  ELSE LET periods == { i \in 1..Len(excerpt) :
                          excerpt[i].d /\ EndOf(excerpt, i) <= ExcerptMax }
           last_period == IF periods = {} THEN 0
                          ELSE CHOOSE i \in periods : \A j \in periods : j <= i
           spaces == { i \in 1..(Len(excerpt) - 1) :
                         EndOf(excerpt, i) <= ExcerptMax - 1 }
           last_space == IF spaces = {} THEN 0
                         ELSE CHOOSE i \in spaces : \A j \in spaces : j <= i
           whole == SubSeq(excerpt, 1, last_space)
           room == ExcerptMax - 1 - TextLen(whole) - (IF whole = <<>> THEN 0 ELSE 1)
       IN IF last_period > 0 /\ EndOf(excerpt, last_period) - 1 > MinCutPos
          THEN SubSeq(excerpt, 1, last_period)
          ELSE IF last_space > 0 /\ EndOf(excerpt, last_space) > MinCutPos
          THEN IF excerpt[last_space].d THEN whole
               ELSE SubSeq(whole, 1, last_space - 1)
                    \o << [v |-> excerpt[last_space].v,
                           c |-> excerpt[last_space].c + 1, d |-> TRUE] >>
          ELSE whole \o << [v |-> "cut", c |-> room + 1, d |-> TRUE] >>

\* ------------------------------------------------------------------------
\* Mojibake fixer
\* ------------------------------------------------------------------------
\* Corrupted forms the model writes.  "moji:emdash" is the three characters
\* that the UTF-8 bytes of an em dash give when read as Windows-1252, and so
\* on; "moji2:endash" is an en dash corrupted twice (eight characters);
\* "moji:rdquo" is a corrupted right double quote, whose third byte 0x9D
\* Windows-1252 does not define, so build_mojibake_map records no key for it.
MOJIBAKE_MAP(bad) ==
  CASE bad = "moji:emdash" -> "emdash"
    [] bad = "moji:endash" -> "endash"
    [] bad = "moji:eacute" -> "eacute"
    [] bad = "moji:copy" -> "copy"
    [] OTHER -> bad

\* What one pass over all keys makes of a word, and how many sequences it
\* replaces there: the three keys inside "moji2:endash" give "moji:endash".
MojibakePass(v) ==
  IF v = "moji2:endash" THEN "moji:endash" ELSE MOJIBAKE_MAP(v)

MojibakeCount(v) ==
  IF v = "moji2:endash" THEN 3 ELSE IF MOJIBAKE_MAP(v) # v THEN 1 ELSE 0

\* The characters a pass removes from a word.
MojibakeShrink(v) ==
  CASE v \in {"moji:emdash", "moji:endash"} -> 2
    [] v \in {"moji:eacute", "moji:copy"} -> 1
    [] v = "moji2:endash" -> 5
    [] OTHER -> 0

RECURSIVE MojibakeTotal(_)
MojibakeTotal(content) ==
  IF content = <<>> THEN 0
  ELSE (IF Head(content).k = "txt" THEN MojibakeCount(Head(content).v) ELSE 0)
       + MojibakeTotal(Tail(content))

fix_mojibake(content) ==
  LET fixed == [i \in 1..Len(content) |->
                  IF content[i].k = "txt"
                  THEN [content[i] EXCEPT !.v = MojibakePass(content[i].v)]
                  ELSE content[i]]
      fix_count == MojibakeTotal(content)
  IN [content |-> fixed,
      changes |-> IF fix_count > 0
                  THEN << Change("Fixed mojibake sequences", "", fix_count) >>
                  ELSE <<>>]

\* The replace loop of optimize_article over a title or an excerpt.
FixMojibakeWords(words) ==
  [i \in 1..Len(words) |->
     [words[i] EXCEPT !.v = MojibakePass(words[i].v),
                      !.c = words[i].c - MojibakeShrink(words[i].v)]]

\* ------------------------------------------------------------------------
\* Banned phrase fixer
\* ------------------------------------------------------------------------
\* A token of kind "ref" holds a phrase written with a character reference
\* (it&#39;s ...): v is the text HTMLParser decodes it to, which the markup
\* itself does not spell.
PlainMatches(t, phrase) == t.k \in {"txt", "ref"} /\ Lower(t.v) = phrase
HtmlMatches(t, phrase) == t.k = "txt" /\ Lower(t.v) = phrase

\* re.search(r'\b' + phrase + r'\b', plain, re.I)
PhraseFound(plain, phrase) == \E i \in 1..Len(plain) : PlainMatches(plain[i], phrase)

\* replace_match: the substitute, with the capital of the match.
ReplaceMatch(t, replacement) ==
  IF replacement = "" THEN <<>>
  ELSE << Txt(IF Lower(t.v) # t.v THEN Capitalize(replacement) ELSE replacement,
              WordsOf(replacement)) >>

RECURSIVE SubPhrase(_, _)
SubPhrase(body, phrase) ==
  IF body = <<>> THEN <<>>
  ELSE (IF HtmlMatches(Head(body), phrase)
        THEN ReplaceMatch(Head(body), BANNED_REPLACEMENTS(phrase))
        ELSE << Head(body) >>)
       \o SubPhrase(Tail(body), phrase)

\* The loop of fix_banned_phrases from the i-th phrase on; body_plain_lower
\* is computed once, before the loop.
RECURSIVE FixBannedFrom(_, _, _, _)
FixBannedFrom(body, body_plain_lower, i, changes) ==
  IF i > Len(BANNED_PHRASES) THEN [body |-> body, changes |-> changes]
  ELSE LET phrase == BANNED_PHRASES[i]
           new_body == SubPhrase(body, phrase)
       IN IF PhraseFound(body_plain_lower, phrase) /\ new_body # body
          THEN FixBannedFrom(new_body, body_plain_lower, i + 1,
                 Append(changes, Change("Replaced banned", phrase, 0)))
          ELSE FixBannedFrom(body, body_plain_lower, i + 1, changes)

fix_banned_phrases(content) ==
  LET body == BodyBeforeHr(content)
      footer == FooterFromHr(content)
      r == FixBannedFrom(body, strip_html(body), 1, <<>>)
  IN [content |-> r.body \o footer, changes |-> r.changes]

\* ------------------------------------------------------------------------
\* Internal link inserter
\* ------------------------------------------------------------------------
\* re.findall(r'href=["\'](?:/articles/([^"\']+?)/)["\']', html)
get_existing_link_targets(html) ==
  { html[i].v : i \in { j \in 1..Len(html) : html[j].k = "art" } }

MinOf(S) == CHOOSE i \in S : \A j \in S : i <= j
MaxOf(S) == CHOOSE i \in S : \A j \in S : j <= i

\* re.finditer(r'<p>(.*?)</p>', body): the paragraphs of body, each with the
\* positions of its <p> and of its </p>, the number of its links and of its
\* words.  A position past the end says that no further tag is found.
NextTag(body, from, tag) ==
  MinOf({ i \in from..Len(body) : IsTag(body[i], tag) } \cup { Len(body) + 1 })

ParaAt(body, start, end) ==
  [start |-> start, end |-> end,
   links |-> Count(SubSeq(body, start + 1, end - 1), IsLink),
   words |-> count_words(SubSeq(body, start + 1, end - 1))]

RECURSIVE ParagraphsFrom(_, _, _)
RECURSIVE ParagraphsFromOpen(_, _)
ParagraphsFrom(body, start, end) ==
  IF start > Len(body) \/ end > Len(body) THEN <<>>
  ELSE << ParaAt(body, start, end) >>
       \o ParagraphsFromOpen(body, NextTag(body, end + 1, "<p>"))

ParagraphsFromOpen(body, start) ==
  ParagraphsFrom(body, start, NextTag(body, start + 1, "</p>"))

Paragraphs(body) == ParagraphsFromOpen(body, NextTag(body, 1, "<p>"))

find_linkable_paragraphs(body_html) ==
  SelectSeq(Paragraphs(BodyBeforeHr(body_html)),
            LAMBDA p : p.links = 0 /\ p.words >= MinLinkableWords)

FirstNonEmpty(a, b, c) == IF a # <<>> THEN a ELSE IF b # <<>> THEN b ELSE c

\* The candidates of insert_sibling_links after its two fallbacks.
FallbackCandidates(paras) ==
  FirstNonEmpty(<<>>,
    SelectSeq(paras, LAMBDA p : p.links = 0 /\ p.words >= MinFallbackWords),
    SelectSeq(paras, LAMBDA p : p.links <= 1 /\ p.words >= MinFallback2Words))

LinkCandidates(content) ==
  FirstNonEmpty(find_linkable_paragraphs(content),
                FallbackCandidates(Paragraphs(BodyBeforeHr(content))), <<>>)

\* The paragraphs spread over the candidates.
SelectSpread(candidates, needed) ==
  IF Len(candidates) > needed
  THEN [i \in 1..needed |->
          candidates[Min(i * Max(1, Len(candidates) \div (needed + 1)),
                         Len(candidates) - 1) + 1]]
  ELSE candidates

\* The words of the anchor text build_anchor_text makes of a title.
AnchorSuffixWords == { "haunted", "ghost", "dark", "true", "complete" }

AnchorCut(title) ==
  MinOf({ i \in 1..(Len(title) - 1) :
            IsSep(title[i]) /\ Lower(title[i + 1].v) \in AnchorSuffixWords }
        \cup { Len(title) + 1 })

build_anchor_text(sibling_title) ==
  Min(SplitLen(SubSeq(sibling_title, 1, AnchorCut(sibling_title) - 1)),
      MaxAnchorWords)

\* The sentence appended to a paragraph.
LinkHtml(sib_slug, anchor) ==
  << Txt("For related history, see our", 5), ArtLink(sib_slug, anchor), Txt(".", 1) >>

\* old in content, and content.replace(old, new, 1): the first occurrence of
\* old is replaced.
Occurrences(content, old) ==
  { i \in 1..(Len(content) - Len(old) + 1) :
      SubSeq(content, i, i + Len(old) - 1) = old }

Occurs(content, old) == Occurrences(content, old) # {}

ReplaceAt(content, first, old, new) ==
  SubSeq(content, 1, first - 1) \o new
  \o SubSeq(content, first + Len(old), Len(content))

ReplaceFirst(content, old, new) ==
  IF Occurs(content, old)
  THEN ReplaceAt(content, MinOf(Occurrences(content, old)), old, new)
  ELSE content

\* The insertions are applied from the last to the first.
RECURSIVE ApplyInsertions(_, _, _, _)
ApplyInsertions(content, changes, insertions, i) ==
  IF i = 0 THEN [content |-> content, changes |-> changes]
  ELSE IF Occurs(content, insertions[i].old_para)
  THEN ApplyInsertions(
         ReplaceFirst(content, insertions[i].old_para, insertions[i].new_para),
         Append(changes, Change("Added body link", insertions[i].sib_slug, 0)),
         insertions, i - 1)
  ELSE ApplyInsertions(content, changes, insertions, i - 1)

\* The loop that pairs the selected paragraphs with the available siblings.
Insertion(old_para, sib_slug, sib_title) ==
  [old_para |-> old_para,
   new_para |-> SubSeq(old_para, 1, Len(old_para) - 1)
                \o LinkHtml(sib_slug, build_anchor_text(sib_title))
                \o << Tag("</p>") >>,
   sib_slug |-> sib_slug]

\* Insertions that take the siblings from the end of the list.
InsertionsFromLast(body, selected, available_siblings, slug_to_title) ==
  [i \in 1..Min(Len(selected), Len(available_siblings)) |->
     Insertion(SubSeq(body, selected[i].start, selected[i].end),
               available_siblings[Len(available_siblings) + 1 - i],
               slug_to_title[available_siblings[Len(available_siblings) + 1 - i]])]

Insertions(body, selected, available_siblings, slug_to_title) ==
  [i \in 1..Min(Len(selected), Len(available_siblings)) |->
     Insertion(SubSeq(body, selected[i].start, selected[i].end),
               available_siblings[i], slug_to_title[available_siblings[i]])]

InsertLinks(content, insertions) ==
  ApplyInsertions(content, <<>>, insertions, Len(insertions))

\* max(0, 3 - len(current_body_links))
LinksNeeded(body_before_hr) ==
  Max(0, MinBodyLinks - Count(body_before_hr, LAMBDA t : t.k = "art"))

EverySibling(siblings, slug, existing_targets) == siblings

AvailableSiblings(siblings, slug, existing_targets) ==
  SelectSeq(siblings, LAMBDA s : s # slug /\ s \notin existing_targets)

insert_sibling_links(content, slug, cat_slug, siblings, slug_to_title, all_slugs) ==
  IF LinksNeeded(BodyBeforeHr(content)) = 0
  THEN [content |-> content, changes |-> <<>>]
  ELSE InsertLinks(content,
         Insertions(BodyBeforeHr(content),
           SelectSpread(LinkCandidates(content), LinksNeeded(BodyBeforeHr(content))),
           AvailableSiblings(siblings, slug,
             get_existing_link_targets(BodyBeforeHr(content))),
           slug_to_title))

\* ------------------------------------------------------------------------
\* Semantic score computer
\* ------------------------------------------------------------------------
\* Tokens of kind "entity", "person", "year" and "src" are the phrases the
\* patterns of compute_semantic_scores match: a capitalised multi-word
\* phrase, a person's name (which the entity pattern matches too), a year in
\* 1000..2029 and a citation phrase.
SourcePattern(v) ==
  CASE v \in {"according to", "museum"} -> 1
    [] v \in {"newspaper", "testimony"} -> 2
    [] v \in {"historian", "curator"} -> 3
    [] OTHER -> 0

\* The words of a level-2 heading that count for the breadth: longer than
\* three letters and no stopword.
IsTopicWord(v) == Lower(v) \in { "salem", "gallows", "judges", "trials", "history" }

\* The positions between <h2> and the next </h2>.
InHeading(content, i) ==
  \E a \in 1..(i - 1) :
     /\ IsTag(content[a], "<h2>")
     /\ \A b \in (a + 1)..i : ~IsTag(content[b], "</h2>")
     /\ \E c \in (i + 1)..Len(content) : IsTag(content[c], "</h2>")

Distinct(plain, kinds) ==
  Cardinality({ plain[i].v : i \in { j \in 1..Len(plain) : plain[j].k \in kinds } })

NoScores ==
  [entities |-> -1, years |-> -1, dataPoints |-> -1, namedPeople |-> -1,
   sourceRefs |-> -1, h2Breadth |-> -1, entityDensity |-> -1]

\* entityDensity is kept in tenths, as round(.., 1) gives it.
compute_semantic_scores(content, plain_text, word_count) ==
  LET entity_count == Distinct(plain_text, {"entity", "person"})
      specific_nums == Count(plain_text, LAMBDA t : t.k = "year")
      per_thousand == Max(word_count, 100)
  IN [entities |-> entity_count,
      years |-> Distinct(plain_text, {"year"}),
      dataPoints |-> Min(specific_nums, MaxBareNumbers),
      namedPeople |-> Distinct(plain_text, {"person"}),
      sourceRefs |-> Cardinality({ SourcePattern(plain_text[i].v) :
                       i \in { j \in 1..Len(plain_text) : plain_text[j].k = "src" } }),
      h2Breadth |-> Cardinality({ Lower(content[i].v) :
                       i \in { j \in 1..Len(content) :
                                 /\ content[j].k = "txt"
                                 /\ InHeading(content, j)
                                 /\ IsTopicWord(content[j].v) } }),
      entityDensity |-> (entity_count * 20000 + per_thousand) \div (2 * per_thousand)]

\* The number a token of kind "year" writes.
YearNumber(v) ==
  CASE v = "1066" -> 1066
    [] v = "1692" -> 1692
    [] OTHER -> 0

\* count_years of the audit tool: the distinct tokens its pattern
\* 1[4-9]\d{2}|20[0-2]\d matches.
count_years(text) ==
  Cardinality({ text[i].v :
                  i \in { j \in 1..Len(text) :
                            /\ text[j].k = "year"
                            /\ YearNumber(text[j].v) \in 1400..2029 } })

\* ------------------------------------------------------------------------
\* Self-validator
\* ------------------------------------------------------------------------
\* The words of a slug without its stopwords.
SlugWords(slug) ==
  CASE slug = "salem-gallows" -> { "salem", "gallows" }
    [] slug = "salem-judges" -> { "salem", "judges" }
    [] slug = "salem-court" -> { "salem", "court" }
    [] slug = "salem-gallows-hill" -> { "salem", "gallows", "hill" }
    [] OTHER -> {}

\* slug in l, for a link l to /articles/<target>/: the slug is a part of the
\* address, as the slug of the first record is of the address of the last.
SlugInHref(slug, target) ==
  \/ slug = target
  \/ slug = "salem-gallows" /\ target = "salem-gallows-hill"

\* The image files under public/.
PublicFiles == { "/images/gallows.jpg" }

\* The sequences that the two patterns of B8 find in a word.
MojibakeFound(v) ==
  CASE v \in {"moji:emdash", "moji:endash", "moji:eacute", "moji:rdquo"} -> 1
    [] v = "moji2:endash" -> 2
    [] OTHER -> 0

RECURSIVE MojibakeMatches(_)
MojibakeMatches(content) ==
  IF content = <<>> THEN 0
  ELSE (IF Head(content).k = "txt" THEN MojibakeFound(Head(content).v) ELSE 0)
       + MojibakeMatches(Tail(content))

\* The words of s among the first 100 words of the plain text.
FirstWords(plain, limit) ==
  { Lower(plain[i].v) :
      i \in { j \in 1..Len(plain) : SumWords(SubSeq(plain, 1, j - 1)) < limit } }

Check(tier, cid, passed, detail) ==
  [tier |-> tier, cid |-> cid, status |-> IF passed THEN "PASS" ELSE "FAIL",
   detail |-> detail]

\* Fail lists that take the failed results of either tier.
FailsOfAnyTier(results, tier) ==
  LET failed == SelectSeq(results, LAMBDA r : r.status = "FAIL")
  IN [i \in 1..Len(failed) |-> failed[i].cid]

FailsOf(results, tier) ==
  LET failed == SelectSeq(results, LAMBDA r : r.tier = tier /\ r.status = "FAIL")
  IN [i \in 1..Len(failed) |-> failed[i].cid]

validate_article(article, all_slugs) ==
  LET content == article.content
      plain == strip_html(content)
      wc == SumWords(plain)
      body == BodyBeforeHr(content)
      slug == article.slug
      tlen == TextLen(article.title)
      elen == TextLen(article.excerpt)
      h1c == Count(content, LAMBDA t : IsTag(t, "<h1>"))
      h2c == Count(content, LAMBDA t : IsTag(t, "<h2>"))
      max_h2 == IF wc >= PillarWords THEN 16 ELSE 8
      body_plain == strip_html(body)
      found_banned == SelectSeq(BANNED_PHRASES, LAMBDA b : PhraseFound(body_plain, b))
      mojibake == MojibakeMatches(content)
      total_body_links == Count(body, LAMBDA t : t.k = "art")
                          + Count(body, LAMBDA t : t.k \in {"hub", "tour"})
      self_links == Count(body, LAMBDA t : t.k = "art" /\ SlugInHref(slug, t.v))
      broken == Count(content, LAMBDA t : t.k = "art" /\ t.v \notin all_slugs)
      slug_words == SlugWords(slug)
      title_lower == { Lower(article.title[i].v) : i \in 1..Len(article.title) }
      enough == Min(2, Cardinality(slug_words))
      keyword_in_title == Cardinality(slug_words \cap title_lower) >= enough
      keyword_in_first100 ==
        Cardinality(slug_words \cap FirstWords(plain, 100)) >= enough
      fi_meta_ok == article.imageUrl # "" /\ article.imageAlt # ""
      fi_file_ok == article.imageUrl = "" \/ article.imageUrl \in PublicFiles
      hub_found ==
        \/ article.category \in HUB_MAP
           /\ \E i \in 1..Len(body) : body[i].k = "hub" /\ body[i].v = article.category
        \/ article.category \in TOUR_MAP
           /\ \E i \in 1..Len(body) : body[i].k = "tour" /\ body[i].v = article.category
      body_article_slugs == get_existing_link_targets(body) \ { slug }
      results ==
        << Check("BLOCK", "B1", TRUE, 0),
           Check("WARN", "B2", tlen <= TitleMax, tlen),
           Check("WARN", "B3", elen <= ExcerptMax, elen),
           Check("BLOCK", "B4", h1c = 0, 0),
           Check("WARN", "B5", 4 <= h2c /\ h2c <= max_h2, h2c),
           Check("BLOCK", "B6", wc >= MinWords, wc),
           Check("BLOCK", "B7", found_banned = <<>>, Len(found_banned)),
           Check("BLOCK", "B8", mojibake = 0, mojibake),
           Check("WARN", "B9", total_body_links >= MinBodyLinks, total_body_links),
           Check("BLOCK", "B10", self_links = 0, 0),
           Check("BLOCK", "B11", broken = 0, broken),
           Check("WARN", "B12", keyword_in_title, 0),
           Check("WARN", "B13", keyword_in_first100, 0),
           Check("BLOCK", "B14", fi_meta_ok, 0),
           Check("WARN", "B14f", fi_file_ok, 0),
           Check("WARN", "W1", article.wordCount > 0, article.wordCount),
           Check("WARN", "W2", article.readingTime >= 0, article.readingTime),
           Check("WARN", "W3", article.articleType # "", 0),
           Check("WARN", "W4", article.pageType \notin {"", "unassigned"}, 0),
           Check("WARN", "W5",
                 /\ HrIndex(content) # 0
                 /\ \E i \in 1..Len(content) : content[i].v = "Continue Reading", 0),
           Check("WARN", "W6", hub_found, 0),
           Check("WARN", "W7", Cardinality(body_article_slugs) >= 2,
                 Cardinality(body_article_slugs)) >>
  IN [results |-> results,
      block_fails |-> FailsOf(results, "BLOCK"),
      warn_fails |-> FailsOf(results, "WARN")]

\* ------------------------------------------------------------------------
\* Core optimizer: the steps of optimize_article between the load of the
\* record and the gate
\* ------------------------------------------------------------------------
\* Step 2, codec repair of body, title and excerpt
StepMojibake(article) ==
  LET r == fix_mojibake(article.content)
  IN [article |-> [article EXCEPT !.content = r.content,
                                  !.title = FixMojibakeWords(article.title),
                                  !.excerpt = FixMojibakeWords(article.excerpt)],
      changes |-> r.changes]

\* B2 and B3, the trims of title and excerpt
StepTrim(st) ==
  LET original_title == st.article.title
      original_excerpt == st.article.excerpt
      new_title == trim_title(original_title)
      new_excerpt == trim_excerpt(original_excerpt)
  IN [article |-> [st.article EXCEPT !.title = new_title, !.excerpt = new_excerpt],
      changes |-> st.changes
        \o (IF new_title # original_title
            THEN << Change("Title: trimmed", "", TextLen(new_title)) >> ELSE <<>>)
        \o (IF new_excerpt # original_excerpt
            THEN << Change("Excerpt: trimmed", "", TextLen(new_excerpt)) >> ELSE <<>>)]

\* B7, the phrase rewrite
StepBanned(st) ==
  LET r == fix_banned_phrases(st.article.content)
  IN [article |-> [st.article EXCEPT !.content = r.content],
      changes |-> st.changes \o r.changes]

\* B9, W6, W7: the link insertion, with the inventory inv
StepLinks(st, slug, inv) ==
  LET cat_slug == IF slug \in DOMAIN inv.slug_to_cat
                  THEN inv.slug_to_cat[slug] ELSE "uncategorized"
      siblings == IF cat_slug \in DOMAIN inv.cat_map
                  THEN inv.cat_map[cat_slug] ELSE <<>>
      r == insert_sibling_links(st.article.content, slug, cat_slug, siblings,
                                inv.slug_to_title, inv.all_slugs)
  IN [article |-> [st.article EXCEPT !.content = r.content],
      changes |-> st.changes \o r.changes]

\* Step 4, the semantic scores
StepScores(st) ==
  LET content == st.article.content
      scores == compute_semantic_scores(content, strip_html(content),
                                        count_words(content))
  IN IF st.article.semanticScores # scores
     THEN [article |-> [st.article EXCEPT !.semanticScores = scores],
           changes |-> Append(st.changes, Change("Computed semanticScores", "", 0))]
     ELSE st

\* Step 5, the metadata, and the last-modified timestamp
StepMetadata(st) ==
  LET a == st.article
      wc == count_words(a.content)
      rt == (wc + WordsPerMinute - 1) \div WordsPerMinute
      at == IF wc >= PillarWords THEN "pillar" ELSE "spoke"
  IN [article |->
        [a EXCEPT !.wordCount = wc,
                  !.readingTime = rt,
                  !.articleType = IF a.articleType = "" THEN at ELSE a.articleType,
                  !.pageType = IF a.pageType \in {"", "unassigned"}
                               THEN "hub-spoke" ELSE a.pageType,
                  !.modified = "now"],
      changes |-> st.changes
        \o (IF a.wordCount # wc THEN << Change("Set wordCount", "", wc) >> ELSE <<>>)
        \o (IF a.readingTime # rt THEN << Change("Set readingTime", "", rt) >> ELSE <<>>)
        \o (IF a.articleType = "" THEN << Change("Set articleType", at, 0) >> ELSE <<>>)
        \o (IF a.pageType \in {"", "unassigned"}
            THEN << Change("Set pageType", "hub-spoke", 0) >> ELSE <<>>)]

\* Steps 2 to 5 in the order of optimize_article.
Remediate(article, slug, inv) ==
  StepMetadata(StepScores(StepLinks(StepBanned(StepTrim(StepMojibake(article))),
                                    slug, inv)))

\* ------------------------------------------------------------------------
\* Record storage
\* ------------------------------------------------------------------------
\* The identifiers of the model, in the order os.listdir gives their files.
SlugOrder == << "salem-gallows", "salem-judges", "salem-court", "salem-gallows-hill" >>
Slugs == Range(SlugOrder)
Sibling(slug) == IF slug = "salem-gallows" THEN "salem-judges" ELSE "salem-gallows"

SlugTitle(slug) ==
  CASE slug = "salem-gallows" -> Word("Gallows", 7)
    [] slug = "salem-judges" -> Word("Judges", 6)
    [] slug = "salem-gallows-hill" -> Word("Hill", 4)
    [] OTHER -> Word("Court", 5)

NoArticle ==
  [slug |-> "", title |-> <<>>, excerpt |-> <<>>, content |-> <<>>,
   category |-> "", imageUrl |-> "", imageAlt |-> "", wordCount |-> -1,
   readingTime |-> -1, articleType |-> "", pageType |-> "",
   semanticScores |-> NoScores, modified |-> "", contentIsNull |-> FALSE]

\* A record with a banned phrase in its prose, a title over 60 characters and
\* no metadata yet: remediation repairs it and the gate lets it pass.
FixableArticle(slug) ==
  [NoArticle EXCEPT
     !.slug = slug,
     !.title = << Word("Salem", 5), SlugTitle(slug), Word("and", 3),
                  Word("the", 3), Word("trials", 6), Colon,
                  Word("Haunted", 7), Word("history", 30) >>,
     !.excerpt = << Sentence("summary", 120) >>,
     !.content = << Tag("<h2>"), Txt("Salem", 1), Tag("</h2>"),
                    Tag("<p>"), Txt("Journey", 1), Txt("prose", 999),
                    Txt(SlugTitle(slug).v, 1), Tag("</p>"),
                    Tag("<hr>"), Txt("Continue Reading", 2),
                    HubLink("salem-witch-trials", 2) >>,
     !.category = "salem-witch-trials",
     !.imageUrl = "/images/gallows.jpg",
     !.imageAlt = "The gallows",
     !.modified = "before"]

\* A record of 900 words: link insertion cannot bring it to 1000.
ShortArticle(slug) ==
  [FixableArticle(slug) EXCEPT
     !.title = << Word("Salem", 5), SlugTitle(slug) >>,
     !.content = << Tag("<p>"), Txt("prose", 900), Tag("</p>") >>]

\* A record whose file is valid JSON with "content": null.
NullContentArticle(slug) ==
  [FixableArticle(slug) EXCEPT !.content = <<>>, !.contentIsNull = TRUE]

JsonFile(article) == [kind |-> "json", a |-> article]
MissingFile == [kind |-> "missing", a |-> NoArticle]
\* A file that json.load refuses
UnparseableFile == [kind |-> "unparseable", a |-> NoArticle]
\* A file that open(path, 'w') has truncated and json.dump has not completed
PartialFile == [kind |-> "partial", a |-> NoArticle]

\* The files a run over the first two records may find; the articles
\* directory holds no file of the other records in these runs.
Files(slug) ==
  IF slug \in {"salem-court", "salem-gallows-hill"} THEN { MissingFile }
  ELSE { MissingFile, UnparseableFile,
         JsonFile(FixableArticle(slug)), JsonFile(ShortArticle(slug)),
         JsonFile(NullContentArticle(slug)) }

\* A record whose category the hub table does not hold.
UnchartedArticle(slug) ==
  [FixableArticle(slug) EXCEPT !.category = "uncharted-category"]

\* A record of 999 words of prose, a thematic break and a Continue Reading
\* footer of two links; it is the only record of its category.
FooterArticle(slug) ==
  [FixableArticle(slug) EXCEPT
     !.title = << Word("Salem", 5), SlugTitle(slug) >>,
     !.content = << Tag("<h2>"), Txt("Salem", 1), Tag("</h2>"),
                    Tag("<p>"), Txt("prose", 997), Txt(SlugTitle(slug).v, 1),
                    Tag("</p>"),
                    Tag("<hr>"), Txt("Continue Reading", 2),
                    ArtLink("salem-judges", 2),
                    HubLink("boston-haunted-history", 2) >>,
     !.category = "boston-haunted-history"]

\* A record whose title holds an en dash that was corrupted twice.
TwiceEncodedArticle(slug) ==
  [FixableArticle(slug) EXCEPT
     !.title = << Word("Salem", 5), SlugTitle(slug), Word("moji2:endash", 8),
                  Word("trials", 6) >>]

\* A record whose prose cites the year 1066 once and the year 1692 twice.
ChronicleArticle(slug) ==
  [FixableArticle(slug) EXCEPT
     !.content = << Tag("<h2>"), Txt("Salem", 1), Tag("</h2>"),
                    Tag("<p>"), Txt("prose", 996),
                    [k |-> "year", v |-> "1066", n |-> 1],
                    [k |-> "year", v |-> "1692", n |-> 1],
                    [k |-> "year", v |-> "1692", n |-> 1],
                    Txt(SlugTitle(slug).v, 1), Tag("</p>"),
                    Tag("<hr>"), Txt("Continue Reading", 2),
                    HubLink("salem-witch-trials", 2) >>]

\* A record of exactly 1000 words that opens with a banned phrase whose
\* replacement is the empty string.
TerseArticle(slug) ==
  [FixableArticle(slug) EXCEPT
     !.content = << Tag("<h2>"), Txt("Salem", 1), Tag("</h2>"),
                    Tag("<p>"), Txt("Without further ado", 3), Txt("prose", 995),
                    Txt(SlugTitle(slug).v, 1), Tag("</p>") >>]

\* The files of the record that a sequence of runs processes again and again.
RerunFiles(slug) ==
  { JsonFile(FixableArticle(slug)), JsonFile(ShortArticle(slug)),
    JsonFile(UnchartedArticle(slug)), JsonFile(FooterArticle(slug)),
    JsonFile(TwiceEncodedArticle(slug)), JsonFile(ChronicleArticle(slug)),
    JsonFile(TerseArticle(slug)) }

\* ------------------------------------------------------------------------
\* State
\* ------------------------------------------------------------------------
VARIABLES
  disk,          \* the record files: slug -> file
  disk0,         \* the record files when the run began
  slugs,         \* the identifier list given to run_pipeline
  threads,       \* max_workers of the pool
  dry_run,       \* the --dry-run flag
  mainpc,        \* where run_pipeline and main are
  inv,           \* the inventory load_inventory returned
  pc,            \* per task (position in slugs): where process_one is
  mem,           \* per task: article, changes and validation held in memory
  result,        \* per task: the result dictionary
  writes,        \* per task: the writes of its record file it has completed
  raised,        \* the tasks whose pipeline raised or found no file
  audit_lock,    \* 0, or the task that holds the lock
  AUDIT_LOG,     \* the narrative sink
  AUDIT_JSON,    \* the structured sink
  saved, blocked, errors,   \* the result lists of run_pipeline
  summary,       \* what run_pipeline returns
  exit_code,     \* the exit status of the process, -1 while it runs
  text,          \* the content and sibling list given to the text functions
  calls,         \* the calls of a text function made on it, each on the
                 \* content the call before it returned
  pub            \* the call of publish_articles: its batch, its stage, the
                 \* files it has written and what it returned

vars == << disk, disk0, slugs, threads, dry_run, mainpc, inv, pc, mem, result,
           writes, raised, audit_lock, AUDIT_LOG, AUDIT_JSON, saved, blocked, errors,
           summary, exit_code, text, calls, pub >>

\* The state of the pipeline, which a call of a text function alone leaves
\* as it is.
pipe_vars == << disk, disk0, slugs, threads, dry_run, mainpc, inv, pc, mem, result,
                writes, raised, audit_lock, AUDIT_LOG, AUDIT_JSON, saved, blocked,
                errors, summary, exit_code >>

Tasks == 1..Len(slugs)

NoInventory ==
  [all_slugs |-> {}, cat_map |-> << >>, slug_to_title |-> << >>,
   slug_to_cat |-> << >>]

NoMem ==
  [article |-> NoArticle, changes |-> <<>>, results |-> <<>>,
   block_fails |-> <<>>, warn_fails |-> <<>>]

NoResult == [status |-> "", block_count |-> 0, warn_count |-> 0, error |-> ""]
NoSummary == [total |-> -1, saved |-> -1, blocked |-> -1, errors |-> -1]
NoText == [content |-> <<>>, siblings |-> <<>>]
NoPub ==
  [articles |-> <<>>, stage |-> "idle", next |-> 0, files |-> {}, ret |-> "",
   given |-> <<>>, sibling_slugs |-> <<>>]

\* The identifier lists of at most MaxList entries; an identifier may occur
\* twice (main takes --slugs a,a as it is).
SlugLists ==
  UNION { [1..n -> { SlugOrder[1], SlugOrder[2] }] : n \in 1..MaxList }

Init ==
  /\ disk \in [Slugs -> UNION { Files(s) : s \in Slugs }]
  /\ \A s \in Slugs : disk[s] \in Files(s)
  /\ disk0 = disk
  /\ slugs \in SlugLists
  /\ threads \in 1..MaxThreads
  /\ dry_run \in BOOLEAN
  /\ mainpc = "inventory"
  /\ inv = NoInventory
  /\ pc = [t \in Tasks |-> "queued"]
  /\ mem = [t \in Tasks |-> NoMem]
  /\ result = [t \in Tasks |-> NoResult]
  /\ writes = [t \in Tasks |-> 0]
  /\ raised = {}
  /\ audit_lock = 0
  /\ AUDIT_LOG = <<>>
  /\ AUDIT_JSON = <<>>
  /\ saved = <<>>
  /\ blocked = <<>>
  /\ errors = <<>>
  /\ summary = NoSummary
  /\ exit_code = -1
  /\ text = NoText
  /\ calls = <<>>
  /\ pub = NoPub

\* ------------------------------------------------------------------------
\* Inventory loader
\* ------------------------------------------------------------------------
Listed == SelectSeq(SlugOrder, LAMBDA s : disk[s].kind # "missing")

\* json.load accepts the file.
Parses(file) == file.kind = "json"

load_inventory ==
  LET cats == { disk[Listed[i]].a.category : i \in 1..Len(Listed) }
  IN [all_slugs |-> Range(Listed),
      cat_map |-> [c \in cats |-> SelectSeq(Listed, LAMBDA s : disk[s].a.category = c)],
      slug_to_title |-> [s \in Range(Listed) |-> disk[s].a.title],
      slug_to_cat |-> [s \in Range(Listed) |-> disk[s].a.category]]

\* run_pipeline loads the inventory before it starts the pool; an exception
\* of load_inventory is caught nowhere and ends the process with status 1.
LoadInventory ==
  /\ mainpc = "inventory"
  /\ IF \A s \in Range(Listed) : Parses(disk[s])
     THEN /\ inv' = load_inventory
          /\ mainpc' = "pool"
          /\ exit_code' = exit_code
     ELSE /\ inv' = inv
          /\ mainpc' = "crashed"
          /\ exit_code' = 1
  /\ UNCHANGED << text, calls, pub, disk, disk0, slugs, threads, dry_run, pc, mem, result, writes, raised,
                  audit_lock, AUDIT_LOG, AUDIT_JSON, saved, blocked, errors,
                  summary >>

\* ------------------------------------------------------------------------
\* Thread pool: process_one and optimize_article
\* ------------------------------------------------------------------------
Running == { t \in Tasks : pc[t] \notin {"queued", "done", "collected"} }

\* The pool has a free worker.
PoolHasRoom == Cardinality(Running) < threads

\* The result of a task whose pipeline raised: the except clause of
\* process_one.
ProcessOneExcept(t, error) ==
  /\ result' = [result EXCEPT ![t] = [NoResult EXCEPT !.status = "ERROR",
                                                      !.error = error]]
  /\ pc' = [pc EXCEPT ![t] = "done"]
  /\ UNCHANGED mainpc

\* An inventory read from the directory anew for every record.
InventoryReadAnew == load_inventory

\* The inventory process_one hands to optimize_article: the one run_pipeline
\* loaded before it started the pool.
SharedInventory == inv

\* A free worker takes the next queued task and runs optimize_article from
\* its first line to the validation: the record is read, remediated and
\* validated in memory.
Load(t) ==
  LET slug == slugs[t]
      file == disk[slug]
      st == Remediate(file.a, slug, SharedInventory)
      v == validate_article(st.article, SharedInventory.all_slugs)
  IN /\ mainpc = "pool"
     /\ pc[t] = "queued"
     /\ PoolHasRoom
     /\ \A u \in Tasks : u < t => pc[u] # "queued"
     /\ IF file.kind = "missing"
        THEN /\ result' = [result EXCEPT ![t] =
                  [NoResult EXCEPT !.status = "ERROR", !.error = "file not found"]]
             /\ pc' = [pc EXCEPT ![t] = "done"]
             /\ raised' = raised \cup {t}
             /\ UNCHANGED << mem, mainpc >>
        ELSE IF ~Parses(file)
        THEN /\ ProcessOneExcept(t, "JSONDecodeError")
             /\ raised' = raised \cup {t}
             /\ UNCHANGED mem
        ELSE IF file.a.contentIsNull
        THEN /\ ProcessOneExcept(t, "TypeError")
             /\ raised' = raised \cup {t}
             /\ UNCHANGED mem
        ELSE /\ mem' = [mem EXCEPT ![t] =
                  [article |-> st.article, changes |-> st.changes,
                   results |-> v.results, block_fails |-> v.block_fails,
                   warn_fails |-> v.warn_fails]]
             /\ result' = [result EXCEPT ![t] =
                  [NoResult EXCEPT !.block_count = Len(v.block_fails),
                                   !.warn_count = Len(v.warn_fails)]]
             /\ pc' = [pc EXCEPT ![t] = "gate"]
             /\ UNCHANGED << mainpc, raised >>
     /\ UNCHANGED << text, calls, pub, disk, disk0, slugs, threads, dry_run, inv, writes,
                     audit_lock, AUDIT_LOG, AUDIT_JSON, saved, blocked, errors,
                     summary, exit_code >>

NeverDryRun == FALSE

\* if dry_run: the return before the save and the log
IsDryRun == dry_run

GateAlwaysPasses(t) == TRUE

\* Step 6: the gate.
GatePasses(t) == result[t].block_count = 0

\* The dry-run return, the open of the record file for writing (which
\* truncates it) or the BLOCKED status.
Gate(t) ==
  /\ pc[t] = "gate"
  /\ IF IsDryRun
     THEN /\ result' = [result EXCEPT ![t].status = "DRY_RUN"]
          /\ pc' = [pc EXCEPT ![t] = "done"]
          /\ disk' = disk
     ELSE IF GatePasses(t)
     THEN /\ disk' = [disk EXCEPT ![slugs[t]] = PartialFile]
          /\ pc' = [pc EXCEPT ![t] = "writing"]
          /\ result' = result
     ELSE /\ result' = [result EXCEPT ![t].status = "BLOCKED"]
          /\ pc' = [pc EXCEPT ![t] = "log"]
          /\ disk' = disk
  /\ UNCHANGED << text, calls, pub, disk0, slugs, threads, dry_run, mainpc, inv, mem, writes, raised,
                  audit_lock, AUDIT_LOG, AUDIT_JSON, saved, blocked, errors,
                  summary, exit_code >>

\* json.dump and the close of the file.  When another task is writing the
\* same file (the list names the identifier twice) the bytes of the two
\* writes may mix.
WriteDone(t) ==
  /\ pc[t] = "writing"
  /\ \/ disk' = [disk EXCEPT ![slugs[t]] = JsonFile(mem[t].article)]
     \/ /\ \E u \in Tasks \ {t} : slugs[u] = slugs[t] /\ pc[u] = "writing"
        /\ disk' = [disk EXCEPT ![slugs[t]] = PartialFile]
  /\ writes' = [writes EXCEPT ![t] = writes[t] + 1]
  /\ result' = [result EXCEPT ![t].status = "SAVED"]
  /\ pc' = [pc EXCEPT ![t] = "log"]
  /\ UNCHANGED << text, calls, pub, disk0, slugs, threads, dry_run, mainpc, inv, mem, raised,
                  audit_lock, AUDIT_LOG, AUDIT_JSON, saved, blocked, errors,
                  summary, exit_code >>

\* ------------------------------------------------------------------------
\* Audit logger
\* ------------------------------------------------------------------------
AuditEntry(t) ==
  [task |-> t, slug |-> slugs[t], block_count |-> result[t].block_count,
   warn_count |-> result[t].warn_count, changes |-> mem[t].changes,
   results |-> mem[t].results, scores |-> mem[t].article.semanticScores]

AppendNothing(sink, t) == sink

AppendOverwrites(sink, t) == << AuditEntry(t) >>

\* f.write(entry) on a sink opened for appending
AppendEntry(sink, t) == Append(sink, AuditEntry(t))

LockAlwaysFree == TRUE

LockFree == audit_lock = 0

\* with audit_lock:
AcquireLock(t) ==
  /\ pc[t] = "log"
  /\ LockFree
  /\ audit_lock' = t
  /\ pc' = [pc EXCEPT ![t] = "log_md"]
  /\ UNCHANGED << text, calls, pub, disk, disk0, slugs, threads, dry_run, mainpc, inv, mem, result,
                  writes, raised, AUDIT_LOG, AUDIT_JSON, saved, blocked, errors, summary,
                  exit_code >>

\* The append to AUDIT-LOG.md
WriteNarrative(t) ==
  /\ pc[t] = "log_md"
  /\ AUDIT_LOG' = AppendEntry(AUDIT_LOG, t)
  /\ pc' = [pc EXCEPT ![t] = "log_json"]
  /\ UNCHANGED << text, calls, pub, disk, disk0, slugs, threads, dry_run, mainpc, inv, mem, result,
                  writes, raised, audit_lock, AUDIT_JSON, saved, blocked, errors, summary,
                  exit_code >>

\* The append to audit-log.jsonl, the release of the lock and the return
WriteStructured(t) ==
  /\ pc[t] = "log_json"
  /\ AUDIT_JSON' = AppendEntry(AUDIT_JSON, t)
  /\ audit_lock' = 0
  /\ pc' = [pc EXCEPT ![t] = "done"]
  /\ UNCHANGED << text, calls, pub, disk, disk0, slugs, threads, dry_run, mainpc, inv, mem, result,
                  writes, raised, AUDIT_LOG, saved, blocked, errors, summary, exit_code >>

\* open() of a sink raises (OSError): the with statement releases the lock
\* and process_one catches the exception.
AuditRaise(t) ==
  /\ pc[t] \in {"log_md", "log_json"}
  /\ audit_lock' = 0
  /\ ProcessOneExcept(t, "OSError")
  /\ raised' = raised \cup {t}
  /\ UNCHANGED << text, calls, pub, disk, disk0, slugs, threads, dry_run, inv, mem, writes,
                  AUDIT_LOG, AUDIT_JSON, saved, blocked, errors, summary,
                  exit_code >>

\* ------------------------------------------------------------------------
\* Runner and entry point
\* ------------------------------------------------------------------------
ResultListErrorsOnly(status) == IF status = "SAVED" THEN "saved" ELSE "errors"

\* The list a result goes to, by its status.
ResultList(status) ==
  IF status = "SAVED" THEN "saved"
  ELSE IF status = "DRY_RUN" THEN "saved"
  ELSE IF status = "BLOCKED" THEN "blocked"
  ELSE "errors"

\* One turn of the as_completed loop.
Collect(t) ==
  /\ mainpc = "pool"
  /\ pc[t] = "done"
  /\ pc' = [pc EXCEPT ![t] = "collected"]
  /\ saved' = IF ResultList(result[t].status) = "saved"
              THEN Append(saved, t) ELSE saved
  /\ blocked' = IF ResultList(result[t].status) = "blocked"
                THEN Append(blocked, t) ELSE blocked
  /\ errors' = IF ResultList(result[t].status) = "errors"
               THEN Append(errors, t) ELSE errors
  /\ UNCHANGED << text, calls, pub, disk, disk0, slugs, threads, dry_run, mainpc, inv, mem, result,
                  writes, raised, audit_lock, AUDIT_LOG, AUDIT_JSON, summary, exit_code >>

\* The summary run_pipeline returns.
Summarize ==
  /\ mainpc = "pool"
  /\ \A t \in Tasks : pc[t] = "collected"
  /\ summary' = [total |-> Len(slugs), saved |-> Len(saved),
                 blocked |-> Len(blocked), errors |-> Len(errors)]
  /\ mainpc' = "summary"
  /\ UNCHANGED << text, calls, pub, disk, disk0, slugs, threads, dry_run, inv, pc, mem, result,
                  writes, raised, audit_lock, AUDIT_LOG, AUDIT_JSON, saved, blocked,
                  errors, exit_code >>

ExitCodeBlockedFirst(s) == IF s.blocked > 0 THEN 1 ELSE IF s.errors > 0 THEN 2 ELSE 0

\* The exit code of main.
ExitCode(s) == IF s.errors > 0 THEN 2 ELSE IF s.blocked > 0 THEN 1 ELSE 0

Exit ==
  /\ mainpc = "summary"
  /\ exit_code' = ExitCode(summary)
  /\ mainpc' = "exited"
  /\ UNCHANGED << text, calls, pub, disk, disk0, slugs, threads, dry_run, inv, pc, mem, result,
                  writes, raised, audit_lock, AUDIT_LOG, AUDIT_JSON, saved, blocked,
                  errors, summary >>

Next ==
  \/ LoadInventory
  \/ \E t \in Tasks : Load(t)
  \/ \E t \in Tasks : Gate(t)
  \/ \E t \in Tasks : WriteDone(t)
  \/ \E t \in Tasks : AcquireLock(t)
  \/ \E t \in Tasks : WriteNarrative(t)
  \/ \E t \in Tasks : WriteStructured(t)
  \/ \E t \in Tasks : AuditRaise(t)
  \/ \E t \in Tasks : Collect(t)
  \/ Summarize
  \/ Exit

Spec == Init /\ [][Next]_vars

\* ------------------------------------------------------------------------
\* Sequential runs over one record
\* ------------------------------------------------------------------------
\* An entry that an earlier run of the program left in a sink.
EarlierEntry ==
  [task |-> 0, slug |-> "salem-judges", block_count |-> 0, warn_count |-> 0,
   changes |-> <<>>, results |-> <<>>, scores |-> NoScores]

\* The sinks as a run may find them: absent, or with the entries of earlier
\* runs.
EarlierSinks == { <<>>, << EarlierEntry >> }

\* A single worker processes the first record as often as the list names
\* it (--slugs salem-gallows,salem-gallows --threads 1): each run after the
\* first reads what the run before it stored, with the inventory loaded
\* once.  Each of the other records may be stored.
SeqInit ==
  /\ disk \in [Slugs -> RerunFiles(SlugOrder[1])
                         \cup { JsonFile(FixableArticle(s)) : s \in Slugs }
                         \cup { MissingFile }]
  /\ disk[SlugOrder[1]] \in RerunFiles(SlugOrder[1])
  /\ \A i \in 2..Len(SlugOrder) :
       disk[SlugOrder[i]] \in { JsonFile(FixableArticle(SlugOrder[i])), MissingFile }
  /\ disk0 = disk
  /\ slugs \in UNION { [1..n -> { SlugOrder[1] }] : n \in 1..MaxList }
  /\ threads = 1
  /\ dry_run \in BOOLEAN
  /\ mainpc = "inventory"
  /\ inv = NoInventory
  /\ pc = [t \in Tasks |-> "queued"]
  /\ mem = [t \in Tasks |-> NoMem]
  /\ result = [t \in Tasks |-> NoResult]
  /\ writes = [t \in Tasks |-> 0]
  /\ raised = {}
  /\ audit_lock = 0
  /\ AUDIT_LOG \in EarlierSinks
  /\ AUDIT_JSON = AUDIT_LOG
  /\ saved = <<>>
  /\ blocked = <<>>
  /\ errors = <<>>
  /\ summary = NoSummary
  /\ exit_code = -1
  /\ text = NoText
  /\ calls = <<>>
  /\ pub = NoPub

SeqSpec == SeqInit /\ [][Next]_vars

\* ------------------------------------------------------------------------
\* The text functions on their own
\* ------------------------------------------------------------------------
\* A phrase written with a character reference.
Ref(v, n) == [k |-> "ref", v |-> v, n |-> n]

\* The paragraphs a content is made of: plain ones of 45 and of 20 words,
\* one of 55 words that links a record of another category, one that links
\* two such records, one that holds a link to a sibling, a hub link and a
\* tour link, and one with a banned phrase, a banned phrase spelt with a
\* character reference and a twice-corrupted en dash.
Blocks ==
  { << Tag("<p>"), Txt("prose", 45), Tag("</p>") >>,
    << Tag("<p>"), Txt("prose", 20), Tag("</p>") >>,
    << Tag("<p>"), Txt("prose", 55), ArtLink("boston-harbor", 2), Tag("</p>") >>,
    << Tag("<p>"), Txt("prose", 10), ArtLink("boston-harbor", 2),
       ArtLink("boston-common", 2), Tag("</p>") >>,
    << Tag("<p>"), Txt("prose", 10), ArtLink("salem-judges", 2),
       HubLink("salem-witch-trials", 2), TourLink("boston-haunted-history", 2),
       Tag("</p>") >>,
    << Tag("<p>"), Ref("it's important to note", 4), Txt("Journey", 1),
       Txt("moji2:endash", 1), Txt("prose", 45), Tag("</p>") >> }

\* A Continue Reading footer behind a thematic break, with a banned phrase
\* and a link of its own.
Footers ==
  { <<>>,
    << Tag("<hr>"), Txt("Continue Reading", 2), Txt("journey", 1),
       ArtLink("salem-court", 2) >> }

RECURSIVE Concat(_)
Concat(seqs) == IF seqs = <<>> THEN <<>> ELSE Head(seqs) \o Concat(Tail(seqs))

Bodies ==
  { Concat(bs) \o f :
      bs \in UNION { [1..n -> Blocks] : n \in 1..MaxBlocks }, f \in Footers }

\* The records of the category, in the order of the inventory: two or three.
SiblingLists == { SubSeq(SlugOrder, 1, n) : n \in 2..3 }

TextTitles == [s \in Slugs |-> << Word("Salem", 5), SlugTitle(s) >>]

TextInit ==
  /\ text \in [content : Bodies, siblings : SiblingLists]
  /\ calls = <<>>
  /\ pub = NoPub
  /\ disk = [s \in Slugs |-> MissingFile]
  /\ disk0 = disk
  /\ slugs = <<>>
  /\ threads = 1
  /\ dry_run = FALSE
  /\ mainpc = "idle"
  /\ inv = NoInventory
  /\ pc = <<>>
  /\ mem = <<>>
  /\ result = <<>>
  /\ writes = <<>>
  /\ raised = {}
  /\ audit_lock = 0
  /\ AUDIT_LOG = <<>>
  /\ AUDIT_JSON = <<>>
  /\ saved = <<>>
  /\ blocked = <<>>
  /\ errors = <<>>
  /\ summary = NoSummary
  /\ exit_code = -1

\* The content the next call is made on: what the call before it returned.
Current == IF calls = <<>> THEN text.content ELSE calls[Len(calls)].ret.content

\* A function is called on the content, or again on its own result.
MayCall(fn) ==
  /\ Len(calls) < MaxCalls
  /\ calls # <<>> => calls[Len(calls)].fn = fn

Call(fn, ret) == [fn |-> fn, arg |-> Current, ret |-> ret]

CallFixMojibake ==
  /\ MayCall("fix_mojibake")
  /\ calls' = Append(calls, Call("fix_mojibake", fix_mojibake(Current)))
  /\ UNCHANGED << text, pub, pipe_vars >>

CallFixBannedPhrases ==
  /\ MayCall("fix_banned_phrases")
  /\ calls' = Append(calls, Call("fix_banned_phrases", fix_banned_phrases(Current)))
  /\ UNCHANGED << text, pub, pipe_vars >>

\* The call optimize_article makes for the first record of the category.
CallInsertSiblingLinks ==
  /\ MayCall("insert_sibling_links")
  /\ calls' = Append(calls, Call("insert_sibling_links",
         insert_sibling_links(Current, SlugOrder[1], "salem-witch-trials",
                              text.siblings, TextTitles, Range(text.siblings))))
  /\ UNCHANGED << text, pub, pipe_vars >>

TextNext ==
  \/ CallFixMojibake
  \/ CallFixBannedPhrases
  \/ CallInsertSiblingLinks

TextSpec == TextInit /\ [][TextNext]_vars

\* ------------------------------------------------------------------------
\* The publishing pipeline of article_utils.py: QC, editorial fix, final QC,
\* write.  A title is held as its length, the length of its part before the
\* last colon or dash (0 without one) and the length its cut at a word
\* boundary has; an excerpt as its length, the length of its leading
\* sentences that fit and the length of its cut at a word boundary; the
\* content as its words of prose, the targets of its body links and its
\* Continue Reading section.
\* ------------------------------------------------------------------------
BRAND_SUFFIX == 15
MAX_TITLE_RAW == 50
MAX_RENDERED_TITLE == 65
MIN_TITLE == 10
MAX_EXCERPT == 160
MIN_EXCERPT == 50
MIN_WORD_COUNT == 500
MIN_BODY_INTERNAL_LINKS == 2
MIN_CONTINUE_READING_LINKS == 3
MaxBatch == 2

\* The hub of a category, "" for a category listed without one (None).
CATEGORY_HUBS ==
  [c \in {"salem-witch-trials", "tour-planning"} |->
     IF c = "salem-witch-trials" THEN "/salem-ghost-tours/" ELSE ""]

_get_hub_url(art) ==
  IF art.category_slug \in DOMAIN CATEGORY_HUBS
  THEN CATEGORY_HUBS[art.category_slug] ELSE ""

ArticleUrl(slug) == "/articles/" \o slug \o "/"

\* The words of the text of a Continue Reading section: its heading and the
\* text of each link, three words a link in the batches of the model.
CrWords(cr) == IF cr.present THEN 2 + 3 * Len(cr.links) ELSE 0

\* `s in u` for the identifiers and the targets of the batches of the model,
\* none of which is part of a target of another record or of a hub.
InUrl(s, u) == u = ArticleUrl(s)

\* slug.lower().strip('/') with every other character made a hyphen.
_fix_slug(slug) ==
  CASE slug = "Salem_Trials" -> "salem-trials"
    [] OTHER -> slug

NeedsCleanup(slug) == slug = "Salem_Trials"

_truncate_title(title) ==
  IF title.len <= MAX_TITLE_RAW THEN title
  ELSE IF title.base >= MIN_TITLE /\ title.base <= MAX_TITLE_RAW
       THEN [len |-> title.base, base |-> 0, cut |-> title.base]
       ELSE [len |-> title.cut, base |-> 0, cut |-> title.cut]

_truncate_excerpt(excerpt) ==
  IF excerpt.len <= MAX_EXCERPT THEN excerpt
  ELSE IF excerpt.built >= MIN_EXCERPT
       THEN [len |-> excerpt.built, built |-> excerpt.built, cut |-> excerpt.built]
       ELSE [len |-> excerpt.cut, built |-> excerpt.cut, cut |-> excerpt.cut]

\* What a check of _qc_one appends to its list.
Issue(label, found) == IF found THEN {label} ELSE {}

\* _qc_one: the fixable and the blocking issues of one article, each check
\* adding at most one issue.
_qc_one(art, sibling_slugs) ==
  LET hub == _get_hub_url(art)
      wc == art.content.words + CrWords(art.content.cr)
      cr == art.content.cr
      others == SelectSeq(sibling_slugs, LAMBDA s : s # art.slug)
      available_count == (IF hub # "" THEN 1 ELSE 0) + Len(others)
      effective_min == Min(MIN_CONTINUE_READING_LINKS, Max(1, available_count))
      sibling_count ==
        Cardinality({i \in DOMAIN sibling_slugs :
                       \E j \in DOMAIN cr.links : InUrl(sibling_slugs[i], cr.links[j])})
      min_siblings == Min(2, Len(others))
      all_content_links == art.content.body \o cr.links
  IN [blocking |->
        Issue("title too short", art.title.len < MIN_TITLE)
        \cup Issue("excerpt too short", art.excerpt.len < MIN_EXCERPT)
        \cup Issue("content too thin", wc < MIN_WORD_COUNT)
        \cup Issue("missing featured image URL", art.image_url = "")
        \cup Issue("missing featured image alt text", art.image_alt = "")
        \cup Issue("missing category slug", art.category_slug = "")
        \cup Issue("missing category name", art.category_name = "")
        \cup Issue("category not in CATEGORY_HUBS",
                   /\ art.category_slug # ""
                   /\ art.category_slug \notin DOMAIN CATEGORY_HUBS),
      fixable |->
        Issue("title too long",
              /\ art.title.len >= MIN_TITLE
              /\ art.title.len + BRAND_SUFFIX > MAX_RENDERED_TITLE)
        \cup Issue("excerpt too long",
                   /\ art.excerpt.len >= MIN_EXCERPT
                   /\ art.excerpt.len > MAX_EXCERPT)
        \cup Issue("slug needs cleanup", NeedsCleanup(art.slug))
        \cup Issue("body has too few internal links",
                   Len(art.content.body) < MIN_BODY_INTERNAL_LINKS)
        \cup Issue("missing hub link",
                   hub # "" /\ hub \notin Range(all_content_links))
        \cup Issue("no Continue Reading section", ~ cr.present)
        \cup Issue("Continue Reading has too few links",
                   cr.present /\ Len(cr.links) < effective_min)
        \cup Issue("Continue Reading missing hub link",
                   cr.present /\ hub # "" /\ hub \notin Range(cr.links))
        \cup Issue("Continue Reading has too few sibling links",
                   /\ cr.present /\ sibling_slugs # <<>>
                   /\ sibling_count < min_siblings)]

\* The slugs of the batch: sibling_slugs of publish_articles, taken once,
\* before the editorial fix.
SlugsOf(articles) == [i \in DOMAIN articles |-> articles[i].slug]

\* A final QC that finds nothing whatever the batch.
NoIssuesFound(articles, sibling_slugs) == 0

\* The issues, fixable and blocking, QC finds in the batch.
IssuesFound(articles, sibling_slugs) ==
  SumWords([i \in DOMAIN articles |->
              [n |-> Cardinality(_qc_one(articles[i], sibling_slugs).fixable)
                     + Cardinality(_qc_one(articles[i], sibling_slugs).blocking)]])

BlockingFound(articles, sibling_slugs) ==
  SumWords([i \in DOMAIN articles |->
              [n |-> Cardinality(_qc_one(articles[i], sibling_slugs).blocking)]])

\* The body of the loop of _editorial_fix for the article at position i, on
\* the batch as the articles before it left it.
EditorialFixOne(articles, i) ==
  LET art == articles[i]
      hub == _get_hub_url(art)
      siblings == SelectSeq(articles, LAMBDA a : a.slug # art.slug)
      generated ==
        [j \in 1..Min(4, Len(siblings)) |-> ArticleUrl(siblings[j].slug)]
        \o (IF hub # "" THEN << hub >> ELSE << >>)
      cr == art.content.cr
      fixed_cr ==
        IF cr.present
        THEN IF hub # "" /\ hub \notin Range(cr.links)
             THEN [present |-> TRUE, links |-> Append(cr.links, hub)]
             ELSE cr
        ELSE IF generated # << >>
             THEN [present |-> TRUE, links |-> generated]
             ELSE cr
  IN [art EXCEPT
        !.title = IF art.title.len + BRAND_SUFFIX > MAX_RENDERED_TITLE
                  THEN _truncate_title(art.title) ELSE art.title,
        !.excerpt = IF art.excerpt.len > MAX_EXCERPT
                    THEN _truncate_excerpt(art.excerpt) ELSE art.excerpt,
        !.slug = _fix_slug(art.slug),
        !.content = [art.content EXCEPT !.cr = fixed_cr]]

RECURSIVE EditorialFrom(_, _)
EditorialFrom(articles, i) ==
  IF i > Len(articles) THEN articles
  ELSE EditorialFrom([articles EXCEPT ![i] = EditorialFixOne(articles, i)], i + 1)

_editorial_fix(articles) == EditorialFrom(articles, 1)

\* The articles a batch is made of.
PubKinds ==
  {"clean", "long-title", "long-excerpt", "no-continue-reading",
   "no-hub-in-continue-reading", "few-body-links", "thin", "uncharted",
   "own-link"}

PubArticle(kind, slug, other) ==
  LET hub == "/salem-ghost-tours/"
  IN [title |-> IF kind = "long-title" THEN [len |-> 70, base |-> 40, cut |-> 48]
                ELSE [len |-> 30, base |-> 0, cut |-> 30],
      slug |-> slug,
      excerpt |-> IF kind = "long-excerpt"
                  THEN [len |-> 200, built |-> 120, cut |-> 158]
                  ELSE [len |-> 100, built |-> 100, cut |-> 100],
      category_slug |-> IF kind = "uncharted" THEN "uncharted-category"
                        ELSE "salem-witch-trials",
      category_name |-> "Salem Witch Trials",
      image_url |-> "/images/" \o slug \o ".webp",
      image_alt |-> "The harbor at dusk",
      content |->
        [words |-> IF kind = "thin" THEN 100 ELSE 600,
         body |-> IF kind = "few-body-links" THEN << >>
                  ELSE << hub, ArticleUrl(other) >>,
         cr |-> CASE kind = "no-continue-reading" ->
                       [present |-> FALSE, links |-> << >>]
                  [] kind = "no-hub-in-continue-reading" ->
                       [present |-> TRUE,
                        links |-> << ArticleUrl(other), ArticleUrl("salem-village") >>]
                  [] kind = "own-link" ->
                       [present |-> TRUE,
                        links |-> << hub, ArticleUrl(other),
                                     ArticleUrl("salem-village"), ArticleUrl(slug) >>]
                  [] OTHER ->
                       [present |-> TRUE,
                        links |-> << hub, ArticleUrl(other),
                                     ArticleUrl("salem-village") >>]]]

\* The batches: one to MaxBatch articles of different slugs, the first of a
\* slug in need of cleanup or not.
BatchSlugs(first) == << first, "salem-judges", "salem-court", "salem-jail" >>

Batches ==
  UNION {
    { [i \in 1..n |-> PubArticle(kinds[i], BatchSlugs(first)[i],
                                 IF i = 1 THEN "salem-judges" ELSE first)] :
        kinds \in [1..n -> PubKinds] } :
      first \in {"salem-trials", "Salem_Trials"}, n \in 1..MaxBatch }

PubInit ==
  /\ pub \in { [articles |-> b, stage |-> "qc", next |-> 0, files |-> {},
                ret |-> "", given |-> b, sibling_slugs |-> SlugsOf(b)] :
               b \in Batches }
  /\ text = NoText
  /\ calls = <<>>
  /\ disk = [s \in Slugs |-> MissingFile]
  /\ disk0 = disk
  /\ slugs = <<>>
  /\ threads = 1
  /\ dry_run = FALSE
  /\ mainpc = "idle"
  /\ inv = NoInventory
  /\ pc = <<>>
  /\ mem = <<>>
  /\ result = <<>>
  /\ writes = <<>>
  /\ raised = {}
  /\ audit_lock = 0
  /\ AUDIT_LOG = <<>>
  /\ AUDIT_JSON = <<>>
  /\ saved = <<>>
  /\ blocked = <<>>
  /\ errors = <<>>
  /\ summary = NoSummary
  /\ exit_code = -1

\* Stage 1: QC of every article; a blocking issue ends the call with False.
PubQC ==
  /\ pub.stage = "qc"
  /\ pub' = IF BlockingFound(pub.articles, pub.sibling_slugs) > 0
            THEN [pub EXCEPT !.stage = "returned", !.ret = "False"]
            ELSE [pub EXCEPT !.stage = "editorial"]
  /\ UNCHANGED << text, calls, pipe_vars >>

\* Stage 2: the editorial fix of the batch, in place.
PubEditorial ==
  /\ pub.stage = "editorial"
  /\ pub' = [pub EXCEPT !.articles = _editorial_fix(pub.articles),
                        !.stage = "final_qc"]
  /\ UNCHANGED << text, calls, pipe_vars >>

\* Stage 3: the final QC; any issue left ends the call with False.
PubFinalQC ==
  /\ pub.stage = "final_qc"
  /\ pub' = IF IssuesFound(pub.articles, pub.sibling_slugs) > 0
            THEN [pub EXCEPT !.stage = "returned", !.ret = "False"]
            ELSE [pub EXCEPT !.stage = "write", !.next = 1]
  /\ UNCHANGED << text, calls, pipe_vars >>

\* Stage 4, _write_to_disk: one file a turn of its loop, named by the slug.
PubWrite ==
  /\ pub.stage = "write"
  /\ pub.next <= Len(pub.articles)
  /\ LET art == pub.articles[pub.next]
     IN pub' = [pub EXCEPT
                  !.files = {f \in pub.files : f.name # art.slug}
                            \cup {[name |-> art.slug, data |-> art]},
                  !.next = pub.next + 1]
  /\ UNCHANGED << text, calls, pipe_vars >>

\* The return of publish_articles after the last file.
PubReturn ==
  /\ pub.stage = "write"
  /\ pub.next > Len(pub.articles)
  /\ pub' = [pub EXCEPT !.stage = "returned", !.ret = "True"]
  /\ UNCHANGED << text, calls, pipe_vars >>

PubNext ==
  \/ PubQC
  \/ PubEditorial
  \/ PubFinalQC
  \/ PubWrite
  \/ PubReturn

PubSpec == PubInit /\ [][PubNext]_vars

\* ------------------------------------------------------------------------
\* Properties
\* ------------------------------------------------------------------------
Outcomes == {"SAVED", "BLOCKED", "DRY_RUN", "ERROR"}

\* process_one has returned the result of the task.
Returned(t) == pc[t] \in {"done", "collected"}

\* optimize_article has taken the record of the task through validation.
Validated(t) == mem[t].results # <<>>

\* The task is past the save step of optimize_article.
PastGate(t) == Validated(t) /\ pc[t] \in {"log", "log_md", "log_json", "done", "collected"}

EntriesOf(sink, t) == Cardinality({ i \in 1..Len(sink) : sink[i].task = t })

TaskSeq(sink) == [i \in 1..Len(sink) |-> sink[i].task]

WithStatus(S) == { t \in Tasks : result[t].status \in S }

RuleIds ==
  { "B1", "B2", "B3", "B4", "B5", "B6", "B7", "B8", "B9", "B10", "B11", "B12",
    "B13", "B14", "B14f", "W1", "W2", "W3", "W4", "W5", "W6", "W7" }

\* The run is over: the process has exited or has died of an exception.
RunOver == mainpc \in {"exited", "crashed"}

\* ---- C1 ----------------------------------------------------------------
\* C1: in a run that is not a dry run the record file of a validated record
\* is written if and only if validation reported no BLOCK failure: with no
\* BLOCK failure the task ends the save step with status SAVED and exactly
\* one write, with a BLOCK failure it gets status BLOCKED and no write, the
\* file of a record no task passed the gate for is the file the run began
\* with, and WARN failures play no part in it.
C1_PersistIffNoBlock ==
  ~dry_run =>
    /\ \A t \in Tasks :
         /\ writes[t] <= 1
         /\ writes[t] = 1 => Validated(t) /\ mem[t].block_fails = <<>>
         /\ PastGate(t) => (writes[t] = 1 <=> mem[t].block_fails = <<>>)
         /\ result[t].status = "SAVED" =>
              writes[t] = 1 /\ result[t].block_count = 0
         /\ result[t].status = "BLOCKED" =>
              writes[t] = 0 /\ result[t].block_count > 0
         /\ (PastGate(t) /\ t \notin raised) =>
              result[t].status = (IF mem[t].block_fails = <<>> THEN "SAVED"
                                                               ELSE "BLOCKED")
    /\ \A s \in Slugs :
         (\A t \in Tasks : slugs[t] = s =>
             ~(Validated(t) /\ mem[t].block_fails = <<>>))
         => disk[s] = disk0[s]

\* A record with WARN failures and no BLOCK failure has been saved and
\* another record has been blocked.
C1_Witness ==
  /\ ~dry_run
  /\ \E t, u \in Tasks :
       /\ result[t].status = "SAVED" /\ result[t].warn_count > 0
       /\ writes[t] = 1 /\ disk[slugs[t]] = JsonFile(mem[t].article)
       /\ disk[slugs[t]] # disk0[slugs[t]]
       /\ result[u].status = "BLOCKED" /\ Returned(u)
       /\ disk[slugs[u]] = disk0[slugs[u]]

InLock == { t \in Tasks : pc[t] \in {"log_md", "log_json"} }

\* C3: at most one task is between the acquisition and the release of
\* audit_lock and it is the holder, so both sinks are written by the holder
\* only; the narrative and the structured entry of a record are written in
\* one hold, so the structured sink lists the records in the order of the
\* narrative sink, and while the lock is free a narrative entry without a
\* structured one belongs to a call that raised between the two.
C3_AuditLockSerialises ==
  /\ Cardinality(InLock) <= 1
  /\ \A t \in InLock : audit_lock = t
  /\ audit_lock # 0 => audit_lock \in InLock
  /\ Len(AUDIT_JSON) <= Len(AUDIT_LOG)
  /\ SelectSeq(TaskSeq(AUDIT_LOG),
               LAMBDA t : EntriesOf(AUDIT_JSON, t) > 0) = TaskSeq(AUDIT_JSON)
  /\ \A i \in 1..Len(AUDIT_LOG) :
       EntriesOf(AUDIT_JSON, AUDIT_LOG[i].task) = 0 =>
         \/ AUDIT_LOG[i].task \in raised
         \/ (i = Len(AUDIT_LOG) /\ audit_lock = AUDIT_LOG[i].task)

\* A task holds the lock between its two writes while another task waits
\* for the lock.
C3_Witness ==
  \E t, u \in Tasks :
    /\ pc[t] = "log_json" /\ audit_lock = t
    /\ EntriesOf(AUDIT_LOG, t) = 1 /\ EntriesOf(AUDIT_JSON, t) = 0
    /\ pc[u] = "log"

\* ---- C4 ----------------------------------------------------------------
\* The worker of the task holds the record it read and has not returned.
InFlight(t) == pc[t] \in {"gate", "writing", "log", "log_md", "log_json"}

\* C4: no two workers process the same record file at the same time, so no
\* two writes of a record file race.
C4_OneWorkerPerRecord ==
  \A t, u \in Tasks :
    (t # u /\ slugs[t] = slugs[u]) => ~(InFlight(t) /\ InFlight(u))

\* ---- C5 ----------------------------------------------------------------
\* json.load refuses the record file of the task.
Malformed(t) == disk0[slugs[t]].kind = "unparseable"

\* The record file of the task is missing, or malformed, or holds no body.
BadInput(t) ==
  \/ disk0[slugs[t]].kind # "json"
  \/ disk0[slugs[t]].a.contentIsNull

\* C5: when the run is over, a listed record whose file json.load refuses
\* has the outcome ERROR and every other listed record has an outcome of
\* its own; so has a listed record whose file is missing or holds no body.
C5_RecordFailureIsolated ==
  RunOver =>
    \A t \in Tasks :
      /\ Malformed(t) =>
           /\ result[t].status = "ERROR"
           /\ \A u \in Tasks : result[u].status \in Outcomes
      /\ (mainpc = "exited" /\ BadInput(t)) => result[t].status = "ERROR"

\* ---- C6 ----------------------------------------------------------------
\* C6: a state in which the run can take no step is the end of a run that
\* returned its summary with every listed identifier in a terminal outcome
\* and the audit lock released.
C6_EveryIdentifierTerminal ==
  ~ENABLED Next =>
    /\ mainpc = "exited"
    /\ audit_lock = 0
    /\ \A t \in Tasks : pc[t] = "collected" /\ result[t].status \in Outcomes

\* ---- C7 ----------------------------------------------------------------
\* C7: at every moment, which is every point a kill can hit, each stored
\* record is the copy the run began with or the complete remediated copy of
\* a task that passed the gate, and the record of a task that failed the
\* gate is the copy the run began with.
C7_OriginalOrComplete ==
  \A s \in Slugs :
    \/ disk[s] = disk0[s]
    \/ \E t \in Tasks :
         /\ slugs[t] = s /\ Validated(t) /\ mem[t].block_fails = <<>>
         /\ disk[s] = JsonFile(mem[t].article)

\* ---- C8 ----------------------------------------------------------------
\* C8: in a dry run no record file is ever written, whatever validation
\* reports, and every call that returned without raising holds the
\* remediated copy of the stored record and the results of all the rules.
C8_DryRunWritesNothing ==
  dry_run =>
    /\ disk = disk0
    /\ \A t \in Tasks :
         /\ writes[t] = 0
         /\ pc[t] # "writing"
         /\ result[t].status \notin {"SAVED", "BLOCKED"}
         /\ (Returned(t) /\ t \notin raised) =>
              /\ result[t].status = "DRY_RUN"
              /\ { mem[t].results[i].cid : i \in 1..Len(mem[t].results) } = RuleIds
              /\ Len(mem[t].results) = Cardinality(RuleIds)
              /\ mem[t].article =
                   Remediate(disk[slugs[t]].a, slugs[t], inv).article
              /\ result[t].block_count = Len(mem[t].block_fails)

\* A dry run has returned one record without BLOCK failures, remediated in
\* memory, and one record with a BLOCK failure, and the files are untouched.
C8_Witness ==
  /\ dry_run
  /\ \E t, u \in Tasks :
       /\ result[t].status = "DRY_RUN" /\ result[t].block_count = 0
       /\ mem[t].changes # <<>> /\ mem[t].article # disk[slugs[t]].a
       /\ result[u].status = "DRY_RUN" /\ result[u].block_count > 0
  /\ disk = disk0

\* ---- C9 ----------------------------------------------------------------
\* C9 as the specification states it: status 0 only without BLOCK failure
\* and without error, status 1 whenever a processed record has a BLOCK
\* failure, status 2 only for an error of the run, never for the error of a
\* single record.
C9_ExitStatusAsSpecified ==
  RunOver =>
    /\ exit_code = 0 =>
         \A t \in Tasks : result[t].status # "ERROR" /\ mem[t].block_fails = <<>>
    /\ (\E t \in Tasks : mem[t].block_fails # <<>>) => exit_code = 1
    /\ exit_code = 2 => \A t \in Tasks : result[t].status # "ERROR"

\* C9: a run that returned its summary exits with status 2 when a record
\* has the outcome ERROR, else with status 1 when a record has the outcome
\* BLOCKED, else with status 0 (a dry run blocks no record); a run that
\* load_inventory aborted ends with the status 1 of an uncaught exception.
C9_ExitStatusWorstOutcome ==
  /\ mainpc = "exited" =>
       exit_code = (IF WithStatus({"ERROR"}) # {} THEN 2
                    ELSE IF WithStatus({"BLOCKED"}) # {} THEN 1 ELSE 0)
  /\ (mainpc = "exited" /\ dry_run) => exit_code \in {0, 2}
  /\ mainpc = "crashed" => exit_code = 1
  /\ ~RunOver => exit_code = -1

\* A run in which one record erred and another one was blocked has exited.
C9_Witness ==
  /\ mainpc = "exited"
  /\ WithStatus({"ERROR"}) # {}
  /\ WithStatus({"BLOCKED"}) # {}
  /\ exit_code = 2

\* ---- C10 ---------------------------------------------------------------
\* C10 as the specification states it: saved counts the records written to
\* storage, blocked the records withheld for BLOCK failures, errors the
\* ERROR outcomes, and the three add up to the number of listed identifiers.
C10_SummaryAsSpecified ==
  summary # NoSummary =>
    /\ summary.saved = Cardinality({ t \in Tasks : writes[t] > 0 })
    /\ summary.blocked =
         Cardinality({ t \in Tasks : writes[t] = 0 /\ mem[t].block_fails # <<>> })
    /\ summary.errors = Cardinality(WithStatus({"ERROR"}))
    /\ summary.saved + summary.blocked + summary.errors = Len(slugs)

\* C10: saved counts the SAVED outcomes and, in a dry run, the DRY_RUN
\* outcomes, whose records were not written; blocked counts the BLOCKED
\* outcomes and is 0 in a dry run; errors counts the ERROR outcomes; the
\* three add up to the number of listed identifiers, which is the total.
C10_SummaryCountsOutcomes ==
  summary # NoSummary =>
    /\ summary.saved = Cardinality(WithStatus({"SAVED", "DRY_RUN"}))
    /\ summary.blocked = Cardinality(WithStatus({"BLOCKED"}))
    /\ summary.errors = Cardinality(WithStatus({"ERROR"}))
    /\ summary.saved + summary.blocked + summary.errors = Len(slugs)
    /\ summary.total = Len(slugs)
    /\ dry_run => /\ summary.blocked = 0
                  /\ summary.saved = Cardinality(WithStatus({"DRY_RUN"}))
                  /\ \A t \in Tasks : writes[t] = 0
    /\ ~dry_run => summary.saved =
                     Cardinality({ t \in WithStatus({"SAVED"}) : writes[t] = 1 })

\* The summary of a run that saved a record and blocked or erred on another.
C10_Witness ==
  /\ summary # NoSummary
  /\ summary.saved > 0
  /\ summary.blocked + summary.errors > 0
  /\ summary.total = Len(slugs)

\* ------------------------------------------------------------------------
\* C11: the audit log only grows.  At every step, and from what earlier
\* runs left to what this run leaves, the earlier content of each of the two
\* sinks is a prefix of its later content.
IsPrefix(s, t) == Len(s) <= Len(t) /\ SubSeq(t, 1, Len(s)) = s

C11_AuditLogOnlyGrows ==
  [][/\ IsPrefix(AUDIT_LOG, AUDIT_LOG')
     /\ IsPrefix(AUDIT_JSON, AUDIT_JSON')]_vars

\* A run has appended its entry behind the entry of an earlier run, in both
\* sinks.
C11_Witness ==
  /\ Len(AUDIT_LOG) >= 2 /\ AUDIT_LOG[1] = EarlierEntry
  /\ Len(AUDIT_JSON) >= 2 /\ AUDIT_JSON[1] = EarlierEntry
  /\ \E t \in Tasks : AUDIT_JSON[2].task = t
\* ------------------------------------------------------------------------
\* C12: a record whose category the category-to-hub table does not hold
\* gets a BLOCK failure from the validation and is not persisted.
C12_UnchartedCategoryBlocks ==
  \A t \in Tasks :
    Validated(t) /\ mem[t].article.category \notin HUB_MAP
      => /\ mem[t].block_fails # <<>>
         /\ writes[t] = 0
         /\ disk[slugs[t]] = disk0[slugs[t]]
\* ------------------------------------------------------------------------
\* C13: a record whose body holds 999 words before the thematic break,
\* followed by a Continue Reading footer of two links, fails the minimum
\* word count as a BLOCK failure and is not persisted, and its audit entry
\* carries the word count 999.
LinksIn(html) == Len(SelectSeq(html, IsLink))

\* The words of the body of the task's record before the thematic break.
BodyWords(t) == count_words(BodyBeforeHr(mem[t].article.content))

C13_FooterWordsNotCounted ==
  \A t \in Tasks :
    /\ Validated(t)
    /\ BodyWords(t) = 999
    /\ HrIndex(mem[t].article.content) > 0
    /\ LinksIn(FooterFromHr(mem[t].article.content)) = 2
    => /\ \E i \in 1..Len(mem[t].block_fails) : mem[t].block_fails[i] = "B6"
       /\ writes[t] = 0
       /\ \A i \in 1..Len(AUDIT_JSON) :
            AUDIT_JSON[i].task = t
              => \E j \in 1..Len(AUDIT_JSON[i].results) :
                   /\ AUDIT_JSON[i].results[j].cid = "B6"
                   /\ AUDIT_JSON[i].results[j].status = "FAIL"
                   /\ AUDIT_JSON[i].results[j].detail = 999
\* ------------------------------------------------------------------------
\* C14: once a run has stored a record, a second run over the stored record
\* with the same inventory has an empty ChangeLog and leaves title, excerpt,
\* body and metadata (the modification timestamp aside) as they were stored.
SameButTimestamp(a, b) == [a EXCEPT !.modified = ""] = [b EXCEPT !.modified = ""]

\* Task u is the run that follows the run t, which stored the record.
RunAfterStore(t, u) == u = t + 1 /\ writes[t] = 1 /\ Validated(u)

C14_SecondRunChangesNothing ==
  \A t \in Tasks, u \in Tasks :
    RunAfterStore(t, u)
      => /\ mem[u].changes = <<>>
         /\ SameButTimestamp(mem[u].article, mem[t].article)
\* ------------------------------------------------------------------------
\* C16: when a corrupted form of the codec map remains in the title, the
\* excerpt or the body after the repair, the BLOCK check B8 fails and the
\* record is not persisted; no record a run has stored holds a corrupted
\* form.
HoldsCorruptedForm(article) ==
  \/ \E i \in 1..Len(article.title) : MojibakeCount(article.title[i].v) > 0
  \/ \E i \in 1..Len(article.excerpt) : MojibakeCount(article.excerpt[i].v) > 0
  \/ MojibakeTotal(article.content) > 0

C16_NoCorruptedFormPersisted ==
  /\ \A t \in Tasks :
       Validated(t) /\ HoldsCorruptedForm(mem[t].article)
         => /\ \E i \in 1..Len(mem[t].block_fails) : mem[t].block_fails[i] = "B8"
            /\ writes[t] = 0
  /\ \A s \in Slugs :
       disk[s] # disk0[s] /\ disk[s].kind = "json"
         => ~HoldsCorruptedForm(disk[s].a)
\* ------------------------------------------------------------------------
\* C15: the codec repair is idempotent: applied to its own result it returns
\* the result as it is and reports no repair.
C15_MojibakeRepairIdempotent ==
  \A i \in 2..Len(calls) :
    calls[i].fn = "fix_mojibake"
      => /\ calls[i].ret.content = calls[i].arg
         /\ calls[i].ret.changes = <<>>
\* ------------------------------------------------------------------------
\* C17: the phrase rewriter leaves the text from the first thematic break
\* to the end of the content as it was.
Rewrites == { i \in 1..Len(calls) : calls[i].fn = "fix_banned_phrases" }

\* The text from the first thematic break on; nothing when there is none.
FromFirstBreak(content) ==
  IF \E i \in 1..Len(content) : IsTag(content[i], "<hr>")
  THEN SubSeq(content,
              CHOOSE i \in 1..Len(content) :
                /\ IsTag(content[i], "<hr>")
                /\ \A j \in 1..(i - 1) : ~IsTag(content[j], "<hr>"),
              Len(content))
  ELSE <<>>

C17_FooterUntouched ==
  \A i \in Rewrites :
    FromFirstBreak(calls[i].ret.content) = FromFirstBreak(calls[i].arg)

\* The rewriter has replaced a phrase before the break of a content whose
\* footer holds a banned phrase too.
C17_Witness ==
  \E i \in Rewrites :
    /\ calls[i].ret.changes # <<>>
    /\ calls[i].ret.content # calls[i].arg
    /\ \E j \in 1..Len(FromFirstBreak(calls[i].arg)) :
         /\ FromFirstBreak(calls[i].arg)[j].k = "txt"
         /\ FromFirstBreak(calls[i].arg)[j].v \in Range(BANNED_PHRASES)
\* ------------------------------------------------------------------------
\* C18: after the phrase rewriter has run, the validator's rule against
\* banned phrases passes: every phrase the validator finds before the break
\* is one the rewriter has replaced.
FoundBanned(content) ==
  { b \in Range(BANNED_PHRASES) : PhraseFound(strip_html(BodyBeforeHr(content)), b) }

C18_RewrittenBodyPassesB7 ==
  \A i \in Rewrites : FoundBanned(calls[i].ret.content) = {}
\* ------------------------------------------------------------------------
\* C19: with existingCount the number of internal links (to records or to a
\* category hub) in the body before the break, the link inserter adds at
\* most 3 - existingCount links when existingCount is below 3, and returns
\* the body as it is, with no change description, when it is 3 or more.
Inserts == { i \in 1..Len(calls) : calls[i].fn = "insert_sibling_links" }

\* The links B9 counts: to /articles/, to /blog/ and to a tour page.
InternalLinks(html) ==
  Len(SelectSeq(html, LAMBDA t : t.k \in {"art", "hub", "tour"}))

LinksAdded(call) == LinksIn(call.ret.content) - LinksIn(call.arg)

C19_AddsAtMostMissingLinks ==
  \A i \in Inserts :
    IF InternalLinks(BodyBeforeHr(calls[i].arg)) < MinBodyLinks
    THEN LinksAdded(calls[i])
           <= MinBodyLinks - InternalLinks(BodyBeforeHr(calls[i].arg))
    ELSE /\ calls[i].ret.content = calls[i].arg
         /\ calls[i].ret.changes = <<>>
\* ------------------------------------------------------------------------
\* C20 as the specification states it: a record with one body link whose
\* category holds two records besides it (needed = 2) gets exactly two
\* sibling links, in two different paragraphs.
ArticleLinks(html) == Len(SelectSeq(html, LAMBDA t : t.k = "art"))

\* The records of the category that the body does not link yet.
Unlinked(call) ==
  { s \in Range(text.siblings) \ { SlugOrder[1] } :
      s \notin get_existing_link_targets(BodyBeforeHr(call.arg)) }

C20_OneLinkGetsTwoMore ==
  \A i \in Inserts :
    /\ ArticleLinks(BodyBeforeHr(calls[i].arg)) = 1
    /\ Cardinality(Range(text.siblings) \ { SlugOrder[1] }) = 2
    => LinksAdded(calls[i]) = 2

\* C20: the link inserter puts at most one link into a paragraph in a call;
\* the links it adds go to different records of the category that the body
\* did not link, never to the record itself, and are no more than the links
\* needed; a record with one body link that has two paragraphs of at least
\* 40 words without a link and two unlinked siblings gets exactly two.
ParaLinks(content) ==
  [k \in 1..Len(Paragraphs(BodyBeforeHr(content))) |->
     Paragraphs(BodyBeforeHr(content))[k].links]

PlainParas(content) ==
  { k \in 1..Len(Paragraphs(BodyBeforeHr(content))) :
      /\ Paragraphs(BodyBeforeHr(content))[k].links = 0
      /\ Paragraphs(BodyBeforeHr(content))[k].words >= MinLinkableWords }

NewTargets(call) ==
  get_existing_link_targets(BodyBeforeHr(call.ret.content))
    \ get_existing_link_targets(BodyBeforeHr(call.arg))

C20_OneLinkPerParagraph ==
  \A i \in Inserts :
    /\ Len(ParaLinks(calls[i].ret.content)) = Len(ParaLinks(calls[i].arg))
    /\ \A k \in 1..Len(ParaLinks(calls[i].arg)) :
         ParaLinks(calls[i].ret.content)[k] - ParaLinks(calls[i].arg)[k] \in {0, 1}
    /\ NewTargets(calls[i]) \subseteq Unlinked(calls[i])
    /\ Cardinality(NewTargets(calls[i])) = LinksAdded(calls[i])
    /\ LinksAdded(calls[i]) = Len(calls[i].ret.changes)
    /\ LinksAdded(calls[i])
         <= Max(0, MinBodyLinks - ArticleLinks(BodyBeforeHr(calls[i].arg)))
    /\ ( /\ ArticleLinks(BodyBeforeHr(calls[i].arg)) = 1
         /\ Cardinality(PlainParas(calls[i].arg)) >= 2
         /\ Cardinality(Unlinked(calls[i])) >= 2
         => LinksAdded(calls[i]) = 2 )

\* A record with one body link has got two links, in two paragraphs of the
\* same text.
C20_Witness ==
  \E i \in Inserts :
    /\ ArticleLinks(BodyBeforeHr(calls[i].arg)) = 1
    /\ LinksAdded(calls[i]) = 2
    /\ \E k, l \in PlainParas(calls[i].arg) :
         /\ k # l
         /\ ParaLinks(calls[i].ret.content)[k] = 1
         /\ ParaLinks(calls[i].ret.content)[l] = 1
         /\ SubSeq(calls[i].arg, Paragraphs(BodyBeforeHr(calls[i].arg))[k].start,
                    Paragraphs(BodyBeforeHr(calls[i].arg))[k].end)
            = SubSeq(calls[i].arg, Paragraphs(BodyBeforeHr(calls[i].arg))[l].start,
                     Paragraphs(BodyBeforeHr(calls[i].arg))[l].end)
\* ---- C21 ---------------------------------------------------------------
\* C21: no remediation step changes the identifier of a record: the slug of
\* every article after the editorial fix of the publishing pipeline is the
\* slug it was given with, a file the pipeline writes is named by the slug
\* its article was given with, and the record optimize_article holds has
\* the slug of the file it was loaded from.
C21_IdentifierNeverChanges ==
  /\ \A i \in DOMAIN pub.articles : pub.articles[i].slug = pub.given[i].slug
  /\ \A f \in pub.files :
       \E i \in DOMAIN pub.given :
         f.name = pub.given[i].slug /\ f.data.slug = pub.given[i].slug
  /\ \A t \in Tasks : Validated(t) => mem[t].article.slug = slugs[t]
\* ---- C23 ---------------------------------------------------------------
\* C23: publish_articles writes only after the final QC found no issue,
\* fixable or blocking, in any article of the batch; it has returned True
\* only with the file of every article written, a call that has returned
\* with a file written has returned True, and a call that has returned
\* False has written no file.
Written(art) == [name |-> art.slug, data |-> art] \in pub.files

C23_WitnessRefused ==
  /\ pub.ret = "False"
  /\ BlockingFound(pub.given, pub.sibling_slugs) = 0
  /\ pub.articles # pub.given
\* ---- C22 ---------------------------------------------------------------
\* C22: the semantic scores of a record are what compute_semantic_scores
\* gives for its body, its plain text and its word count, and the year count
\* of the optimizer is the year count the audit tool computes on the same
\* plain text.
C22_ScorersAgree ==
  \A t \in Tasks :
    Validated(t)
      => LET content == mem[t].article.content
             plain == strip_html(content)
         IN /\ mem[t].article.semanticScores
                 = compute_semantic_scores(content, plain, count_words(content))
            /\ mem[t].article.semanticScores.years = count_years(plain)
\* ---- C25 ---------------------------------------------------------------
\* C25: validate_article returns one result per rule, in the order of the
\* rules and with the tier of each rule, whatever the record and however
\* many rules failed before; block_fails holds exactly the ids of the failed
\* results of tier BLOCK and warn_fails those of tier WARN, each once.
RuleOrder ==
  << "B1", "B2", "B3", "B4", "B5", "B6", "B7", "B8", "B9", "B10", "B11", "B12",
     "B13", "B14", "B14f", "W1", "W2", "W3", "W4", "W5", "W6", "W7" >>

RuleTier(cid) ==
  IF cid \in {"B1", "B4", "B6", "B7", "B8", "B10", "B11", "B14"}
  THEN "BLOCK" ELSE "WARN"

FailedIds(results, tier) ==
  { results[i].cid :
      i \in { j \in 1..Len(results) :
                results[j].tier = tier /\ results[j].status = "FAIL" } }

C25_ResultPerRule ==
  \A t \in Tasks :
    Validated(t)
      => LET results == mem[t].results
         IN /\ [i \in 1..Len(results) |-> results[i].cid] = RuleOrder
            /\ \A i \in 1..Len(results) :
                 /\ results[i].tier = RuleTier(results[i].cid)
                 /\ results[i].status \in {"PASS", "FAIL"}
            /\ Range(mem[t].block_fails) = FailedIds(results, "BLOCK")
            /\ Len(mem[t].block_fails) = Cardinality(FailedIds(results, "BLOCK"))
            /\ Range(mem[t].warn_fails) = FailedIds(results, "WARN")
            /\ Len(mem[t].warn_fails) = Cardinality(FailedIds(results, "WARN"))

\* A validation in which a BLOCK rule failed and rules after it were still
\* evaluated, one of each tier failing.
C25_Witness ==
  \E t \in Tasks :
    /\ Validated(t)
    /\ \E i, j, k \in 1..Len(mem[t].results) :
         /\ i < j /\ i < k
         /\ mem[t].results[i].tier = "BLOCK" /\ mem[t].results[i].status = "FAIL"
         /\ mem[t].results[j].tier = "WARN" /\ mem[t].results[j].status = "FAIL"
         /\ mem[t].results[k].tier = "BLOCK" /\ mem[t].results[k].status = "PASS"
\* ---- C26 ---------------------------------------------------------------
\* C26: the no-self-links rule B10 fails if and only if the body before the
\* thematic break holds a link whose target is the record's own identifier;
\* a link to another record, one the Link Inserter added included, never
\* makes it fail.
RuleFailed(t, cid) ==
  \E i \in 1..Len(mem[t].results) :
    mem[t].results[i].cid = cid /\ mem[t].results[i].status = "FAIL"

LinksToItself(article) ==
  \E i \in 1..Len(BodyBeforeHr(article.content)) :
    /\ BodyBeforeHr(article.content)[i].k = "art"
    /\ BodyBeforeHr(article.content)[i].v = article.slug

C26_SelfLinkRuleExact ==
  \A t \in Tasks :
    Validated(t) => (RuleFailed(t, "B10") <=> LinksToItself(mem[t].article))
\* ---- C27 ---------------------------------------------------------------
\* C27: every link a call of insert_sibling_links adds targets a record of
\* the member list of the category that is not the record itself and that
\* the body did not link; the links of one call target pairwise different
\* records, which are the first of the member list that qualify, and the
\* changes of the call name exactly these records.
Eligible(call) ==
  SelectSeq(text.siblings,
            LAMBDA s : /\ s # SlugOrder[1]
                       /\ s \notin get_existing_link_targets(BodyBeforeHr(call.arg)))

C27_LinksToUnlinkedSiblingsInOrder ==
  \A i \in Inserts :
    /\ LinksAdded(calls[i]) <= Len(Eligible(calls[i]))
    /\ NewTargets(calls[i])
         = { Eligible(calls[i])[j] : j \in 1..LinksAdded(calls[i]) }
    /\ \A s \in NewTargets(calls[i]) :
         /\ s \in Range(text.siblings)
         /\ s # SlugOrder[1]
         /\ s \notin get_existing_link_targets(BodyBeforeHr(calls[i].arg))
    /\ { calls[i].ret.changes[j].s : j \in 1..Len(calls[i].ret.changes) }
         = NewTargets(calls[i])

\* A call has added a link to the first record that qualifies and left a
\* later one out.
C27_Witness ==
  \E i \in Inserts :
    /\ LinksAdded(calls[i]) >= 1
    /\ LinksAdded(calls[i]) < Len(Eligible(calls[i]))

\* A call on a body that links the first sibling already has added a link
\* to the next one.
C27_WitnessSkipsLinked ==
  \E i \in Inserts :
    /\ LinksAdded(calls[i]) >= 1
    /\ Len(Eligible(calls[i])) < Len(text.siblings) - 1
\* ---- C28 ---------------------------------------------------------------
\* C28: when the list names every identifier once, the record a task holds
\* after validation, its changes and its failed rules are those of a run of
\* that record alone on the files and the inventory of the start, whatever
\* the other tasks did meanwhile and however many workers the pool has; its
\* outcome is the one that record and the dry-run flag give unless a step
\* raised; and the stored file is the validated record once it has been
\* written and the file of the start as long as the task has not touched it.
DistinctSlugs == \A t, u \in Tasks : t # u => slugs[t] # slugs[u]

AloneRecord(t) == Remediate(disk0[slugs[t]].a, slugs[t], inv)

AloneFails(t) == validate_article(AloneRecord(t).article, inv.all_slugs)

AloneOutcome(t) ==
  IF dry_run THEN "DRY_RUN"
  ELSE IF AloneFails(t).block_fails = <<>> THEN "SAVED" ELSE "BLOCKED"

C28_OutcomeIndependentOfInterleaving ==
  DistinctSlugs
    => \A t \in Tasks :
         /\ Validated(t)
              => /\ mem[t].article = AloneRecord(t).article
                 /\ mem[t].changes = AloneRecord(t).changes
                 /\ mem[t].results = AloneFails(t).results
                 /\ mem[t].block_fails = AloneFails(t).block_fails
                 /\ mem[t].warn_fails = AloneFails(t).warn_fails
         /\ (Returned(t) /\ t \notin raised) => result[t].status = AloneOutcome(t)
         /\ (Returned(t) /\ t \in raised) => result[t].status = "ERROR"
         /\ (Returned(t) /\ ~Validated(t))
              => \/ disk0[slugs[t]].kind # "json"
                 \/ disk0[slugs[t]].a.contentIsNull
         /\ (writes[t] = 1 /\ pc[t] # "writing")
              => disk[slugs[t]] = JsonFile(AloneRecord(t).article)
         /\ (writes[t] = 0 /\ pc[t] # "writing")
              => disk[slugs[t]] = disk0[slugs[t]]

\* Two workers are in their records at the same time, one of them past its
\* write, and both records get links to each other's record.
C28_Witness ==
  /\ DistinctSlugs
  /\ \E t, u \in Tasks :
       /\ t # u
       /\ InFlight(t) /\ InFlight(u)
       /\ writes[t] = 1
       /\ Validated(u)
       /\ mem[u].changes # <<>>
\* ---- C29 ---------------------------------------------------------------
\* C29: remediation never makes a record fail a BLOCK rule that its content
\* as loaded passed: every BLOCK rule that passes on the file of the start
\* passes on the remediated record; in particular phrase rewriting and link
\* insertion never bring the word count below the minimum and never create
\* a self-link or a broken internal link.
OriginalResults(t) == validate_article(disk0[slugs[t]].a, inv.all_slugs).results

C29_RemediationKeepsBlockRules ==
  Tasks # {} /\ Validated(1)
    => \A i \in 1..Len(mem[1].results) :
         /\ mem[1].results[i].tier = "BLOCK"
         /\ OriginalResults(1)[i].status = "PASS"
         => mem[1].results[i].status = "PASS"

\* The part of C29 on the word count alone: a record loaded with at least
\* the minimum of words has at least the minimum after remediation.
C29_WordCountKept ==
  Tasks # {} /\ Validated(1)
    => ( count_words(disk0[slugs[1]].a.content) >= MinWords
         => count_words(mem[1].article.content) >= MinWords )
\* ---- C30 ---------------------------------------------------------------
\* C30: a record whose task ended with outcome ERROR has not been written by
\* that task: whenever a step of its pipeline raised, the write of the audit
\* log included, the task has completed no write of the record file, and
\* with every identifier listed once the stored file is the file of the
\* start.
C30_ErrorMeansNotWritten ==
  \A t \in Tasks :
    (Returned(t) /\ result[t].status = "ERROR")
      => /\ writes[t] = 0
         /\ DistinctSlugs => disk[slugs[t]] = disk0[slugs[t]]
\* ---- C24 ---------------------------------------------------------------
\* C24: a record passes through codec repair, phrase rewrite, link
\* insertion, scoring, metadata fill, validation, save-or-block and logging
\* in that order, each at most once and none re-entered: the changes of a
\* task are logged in the order of the steps, a task only moves forward, the
\* record it holds does not change once it is validated, and the file a
\* completed write leaves is exactly the validated record.
StepOfChange(c) ==
  CASE c = "Fixed mojibake sequences" -> 1
    [] c \in {"Title: trimmed", "Excerpt: trimmed"} -> 2
    [] c = "Replaced banned" -> 3
    [] c = "Added body link" -> 4
    [] c = "Computed semanticScores" -> 5
    [] OTHER -> 6

StepOfTask(p) ==
  CASE p = "queued" -> 0
    [] p = "gate" -> 1
    [] p = "writing" -> 2
    [] p = "log" -> 3
    [] p = "log_md" -> 4
    [] p = "log_json" -> 5
    [] p = "done" -> 6
    [] OTHER -> 7

ChangesInStepOrder(changes) ==
  \A i, j \in 1..Len(changes) :
    i < j => StepOfChange(changes[i].c) <= StepOfChange(changes[j].c)

C24_StepsInOrderStoredIsValidated ==
  [][\A t \in Tasks :
       /\ pc'[t] # pc[t] => StepOfTask(pc'[t]) > StepOfTask(pc[t])
       /\ Validated(t) => mem'[t] = mem[t]
       /\ (~Validated(t) /\ mem'[t] # mem[t]) => ChangesInStepOrder(mem'[t].changes)
       /\ writes'[t] # writes[t]
            => /\ writes'[t] = 1
               /\ disk'[slugs[t]] = JsonFile(mem[t].article)]_vars
====
